---- MODULE Spec2Model ----
(***************************************************************************)
(* Verification model of openaleph-search: the bulk ingest pipeline        *)
(* (index/indexer.py and index/util.py), the bulk-indexing-mode scope, the *)
(* entity index operations (index/entities.py, index/indexes.py), the      *)
(* authorization filter of the search path (query/util.py, model.py) and   *)
(* the xref store (index/xref.py).                                         *)
(***************************************************************************)
EXTENDS Integers, FiniteSets, Sequences, TLC

(***************************************************************************)
(* Bounds of the model.                                                    *)
(***************************************************************************)
MaxLen == 4
MaxChunkSize == 2
MaxConc == 2

\* index/util.py:18 sets BULK_PAGE = 500; the model scales the page to 2
\* actions so that a source of MaxLen actions spans several pages.
BULK_PAGE == 2

Min(a, b) == IF a < b THEN a ELSE b

(***************************************************************************)
(* State of one run of bulk_actions_async.                                 *)
(***************************************************************************)
VARIABLES
    impl,       \* "indexer" (index/indexer.py) or "util" (index/util.py)
    srcLen,     \* number of actions the source iterator yields
    chunkSize,  \* the chunk_size argument
    maxConc,    \* the max_concurrency argument
    taken,      \* number of chunks taken from the source so far
    task,       \* per chunk: the task's state and result
    sem,        \* value of the asyncio.Semaphore
    pending,    \* pending_tasks (indexer) / tasks (util)
    mpc,        \* position of the bulk_actions_async coroutine
    attempts,   \* per chunk: number of times it was run against the bulk endpoint
    success,    \* tally of successful actions
    errors,     \* tally of failed actions
    esClosed,   \* the async client was closed
    doneOrder   \* chunk ids in the order their bulk requests were answered

bulkVars == <<impl, srcLen, chunkSize, maxConc, taken, task, sem, pending,
              mpc, attempts, success, errors, esClosed, doneOrder>>

(***************************************************************************)
(* State of the bulk-indexing-mode scope.                                  *)
(***************************************************************************)
VARIABLES
    modeCfg,      \* the configured index_refresh_interval and index_replicas
    idxSettings,  \* per entity index: its live settings
    modePc,       \* "outside", "inside" the scope's body, or "exited"
    modeExit      \* how the body was left last

modeVars == <<modeCfg, idxSettings, modePc, modeExit>>

(***************************************************************************)
(* State of the entity indexes.                                            *)
(***************************************************************************)
VARIABLES
    testing,     \* settings.testing
    stored,      \* per entity index: the ids it holds
    visible,     \* per entity index: the ids a search sees (as of its last refresh)
    lastSchema,  \* per id: the schema it was last indexed with
    handed,      \* the action last handed to the bulk pipeline
    formatted,   \* the action format_entity returned last
    lastOp,      \* the last entry point called, with its arguments and
                 \* whether every index was refreshed when it was called
    issued       \* the sync argument of the last entry point called and the
                 \* backend writes and deletes it issued, with their refresh

entVars == <<testing, stored, visible, lastSchema, handed, formatted, lastOp,
             issued>>

(***************************************************************************)
(* State of the search path.                                               *)
(***************************************************************************)
VARIABLES
    docs,        \* per stored document: its dataset
    lastSearch,  \* the auth and the parameters of the last search
    hits         \* the documents the last search returned

searchVars == <<docs, lastSearch, hits>>

(***************************************************************************)
(* State of the xref index.                                                *)
(***************************************************************************)
VARIABLES
    xrefs,       \* the stored xref records
    lastScan,    \* the arguments of the last iter_matches
    yielded      \* the records the last iter_matches yielded

xrefVars == <<xrefs, lastScan, yielded>>

(***************************************************************************)
(* State of one run of contrib/cleanup_cross_bucket_duplicates.py.         *)
(***************************************************************************)
VARIABLES
    cleanPc,     \* "idle", "scan" (inside the generator loop) or "done"
    dryRun,      \* the dry_run argument of the run
    batchSize,   \* the batch_size argument of the run
    toScan,      \* ids the scroll over the keep index has still to yield
    stats,       \* the run's statistics: found, deleted, errors
    runStart,    \* what held when the run started: the ids stored in both
                 \* buckets, and whether both buckets were refreshed
    prevRun      \* the finished run before this one: its mode, its errors,
                 \* and whether it started on refreshed buckets

cleanupVars == <<cleanPc, dryRun, batchSize, toScan, stats, runStart, prevRun>>

(***************************************************************************)
(* State of one index_bulk call over a stream of entities.                 *)
(***************************************************************************)
VARIABLES
    sDataset,    \* the dataset argument
    sSource,     \* the schemata of the entities the stream yields, in order
    sPos,        \* number of entities taken from the stream so far
    sSubmitted,  \* positions of the entities whose action reached bulk_actions
    sSkipped,    \* positions of the entities dropped with a warning
    sPc          \* "idle", "run", "done", or "raised"

streamVars == <<sDataset, sSource, sPos, sSubmitted, sSkipped, sPc>>

(***************************************************************************)
(* State of one compilation of a parsed search request.                    *)
(***************************************************************************)
VARIABLES
    cRequest,    \* the parsed request: fields with an equality filter, fields
                 \* with a range filter, and the facets asked for
    cBody,       \* the compiled body: its filter clauses and its post_filter
    cPc          \* "idle", "parsed" or "compiled"

compileVars == <<cRequest, cBody, cPc>>

(***************************************************************************)
(* State of the classification of schemata into buckets.                   *)
(***************************************************************************)
VARIABLES
    classified   \* per schema: the bucket schema_bucket gave it, once asked

bucketVars == <<classified>>

(***************************************************************************)
(* State of the xref index under repeated emissions of matches.            *)
(***************************************************************************)
VARIABLES
    eIndex,      \* the documents of the xref index, by _id
    eCount,      \* per match: how often it was emitted through index_matches
    eFirst,      \* per match: the document its first emission stored
    eLast,       \* per match: the document its latest emission stored
    eClock       \* the time datetime.utcnow() gives

emitVars == <<eIndex, eCount, eFirst, eLast, eClock>>

(***************************************************************************)
(* State of one run of a command-line entry point.                         *)
(***************************************************************************)
VARIABLES
    cliCommand,  \* "index-entities" (cli.py) or "cleanup" (the contrib script)
    cliExit      \* whether the process has ended, and its exit code

cliVars == <<cliCommand, cliExit>>

(***************************************************************************)
(* State of one index under configure_index.                               *)
(***************************************************************************)
VARIABLES
    aExists,     \* the index exists
    aOpen,       \* the index is open
    aLive,       \* the live settings of the index
    aCalls,      \* the es.indices calls the last configure_index issued, in order
    aLast,       \* the last configure_index: whether the index existed, whether
                 \* its settings differed from the requested ones, its result
    aRuns        \* number of configure_index calls so far

adminVars == <<aExists, aOpen, aLive, aCalls, aLast, aRuns>>

(***************************************************************************)
(* State of one chunk through process_chunk and the tally.                 *)
(***************************************************************************)
VARIABLES
    tChunk,     \* the chunk: per action, its operation and the status it is answered with
    tResult,    \* what process_chunk gave: a (success, failed) pair or an exception
    tLogged,    \* the failures process_chunk logged a warning for
    tSuccess,   \* the success tally of bulk_actions_async
    tErrors,    \* the failed tally of bulk_actions_async
    tPc         \* "idle", "chunk", "answered", "tallied"

tallyVars == <<tChunk, tResult, tLogged, tSuccess, tErrors, tPc>>

(***************************************************************************)
(* State of an external cancellation of bulk_actions_async.                *)
(***************************************************************************)
VARIABLES
    kCancelled,  \* "no", or the await the CancelledError was delivered at
    kTaken       \* the number of chunks formed when the cancellation arrived

cancelVars == <<kCancelled, kTaken>>

(***************************************************************************)
(* State of one call of rewrite_mapping_safe.                              *)
(***************************************************************************)
VARIABLES
    rPending,    \* the pending mapping
    rExisting,   \* the live mapping of the index
    rResult,     \* what rewrite_mapping_safe returned
    rPc          \* "idle", "call", "done"

rewriteVars == <<rPending, rExisting, rResult, rPc>>

(***************************************************************************)
(* State of one call of _connect_sync or _connect_async.                   *)
(***************************************************************************)
VARIABLES
    nImpl,       \* "sync" (_connect_sync) or "async" (_connect_async)
    nAttempt,    \* the loop variable: attempts begun so far
    nCreated,    \* client objects the constructor returned
    nClosed,     \* client objects that were closed
    nSlept,      \* delays slept
    nPc          \* "idle", "loop", "returned", "raised_connection", "raised_other"

connectVars == <<nImpl, nAttempt, nCreated, nClosed, nSlept, nPc>>

(***************************************************************************)
(* State of one resolution of the read indexes.                            *)
(***************************************************************************)
VARIABLES
    qNames,      \* the schema names given (empty: none given)
    qExpand,     \* the expand argument of a direct call
    qVersions,   \* settings.index_read
    qCall,       \* "none", "read_index", "get_index_schema", "get_index_schemata"
    qIndexes     \* the index names resolved; the joined string is empty iff this is

scopeVars == <<qNames, qExpand, qVersions, qCall, qIndexes>>

(***************************************************************************)
(* State of the date simplification of one formatted entity.               *)
(***************************************************************************)
VARIABLES
    oCreated,    \* the created_at timestamps observed for the entity
    oUpdated,    \* the updated_at timestamps observed for the entity
    oStored,     \* the created_at and updated_at of the formatted document
    oPc          \* "idle", "format", "done"

stampVars == <<oCreated, oUpdated, oStored, oPc>>

(***************************************************************************)
(* State of the last delete_xref.                                          *)
(***************************************************************************)
VARIABLES
    xDeleted     \* the last delete_xref: its arguments and the records it removed

xdelVars == <<xDeleted>>

\* the state of the components added to the core ones
extVars == <<cleanupVars, streamVars, compileVars, bucketVars, emitVars, cliVars, adminVars, tallyVars, cancelVars, rewriteVars, connectVars, scopeVars, stampVars, xdelVars>>

exceptCleanup == <<streamVars, compileVars, bucketVars, emitVars, cliVars, adminVars, tallyVars, cancelVars, rewriteVars, connectVars, scopeVars, stampVars, xdelVars>>

exceptStream == <<cleanupVars, compileVars, bucketVars, emitVars, cliVars, adminVars, tallyVars, cancelVars, rewriteVars, connectVars, scopeVars, stampVars, xdelVars>>

exceptCompile == <<cleanupVars, streamVars, bucketVars, emitVars, cliVars, adminVars, tallyVars, cancelVars, rewriteVars, connectVars, scopeVars, stampVars, xdelVars>>

exceptBucket == <<cleanupVars, streamVars, compileVars, emitVars, cliVars, adminVars, tallyVars, cancelVars, rewriteVars, connectVars, scopeVars, stampVars, xdelVars>>

exceptEmit == <<cleanupVars, streamVars, compileVars, bucketVars, cliVars, adminVars, tallyVars, cancelVars, rewriteVars, connectVars, scopeVars, stampVars, xdelVars>>

exceptCli == <<cleanupVars, streamVars, compileVars, bucketVars, emitVars, adminVars, tallyVars, cancelVars, rewriteVars, connectVars, scopeVars, stampVars, xdelVars>>

exceptAdmin == <<cleanupVars, streamVars, compileVars, bucketVars, emitVars, cliVars, tallyVars, cancelVars, rewriteVars, connectVars, scopeVars, stampVars, xdelVars>>

exceptTally == <<cleanupVars, streamVars, compileVars, bucketVars, emitVars, cliVars, adminVars, cancelVars, rewriteVars, connectVars, scopeVars, stampVars, xdelVars>>

exceptCancel == <<cleanupVars, streamVars, compileVars, bucketVars, emitVars, cliVars, adminVars, tallyVars, rewriteVars, connectVars, scopeVars, stampVars, xdelVars>>

exceptRewrite == <<cleanupVars, streamVars, compileVars, bucketVars, emitVars, cliVars, adminVars, tallyVars, cancelVars, connectVars, scopeVars, stampVars, xdelVars>>

exceptConnect == <<cleanupVars, streamVars, compileVars, bucketVars, emitVars, cliVars, adminVars, tallyVars, cancelVars, rewriteVars, scopeVars, stampVars, xdelVars>>

exceptScope == <<cleanupVars, streamVars, compileVars, bucketVars, emitVars, cliVars, adminVars, tallyVars, cancelVars, rewriteVars, connectVars, stampVars, xdelVars>>

exceptStamp == <<cleanupVars, streamVars, compileVars, bucketVars, emitVars, cliVars, adminVars, tallyVars, cancelVars, rewriteVars, connectVars, scopeVars, xdelVars>>

exceptXdel == <<cleanupVars, streamVars, compileVars, bucketVars, emitVars, cliVars, adminVars, tallyVars, cancelVars, rewriteVars, connectVars, scopeVars, stampVars>>

coreVars == <<bulkVars, modeVars, entVars, searchVars, xrefVars>>

vars == <<coreVars, extVars>>

\* itertools.batched(actions, n): the size the source is cut by.
BatchSize(im, cs) == IF im = "indexer" THEN cs ELSE BULK_PAGE

\* number of chunks itertools.batched forms from a source of len actions
NumChunks(len, n) == (len + n - 1) \div n

\* number of actions in the i-th chunk (1-based)
ChunkLen(len, n, i) == Min(n, len - (i - 1) * n)

MaxChunks == MaxLen

ChunkIds == 1..MaxChunks

NoTask == [st |-> "none", ok |-> 0, failed |-> 0]

\* a semaphore created one slot too wide
SemaphoreOffByOne(n) == n + 1

\* asyncio.Semaphore(max_concurrency)
Semaphore(n) == n

\* what async_bulk can answer for a chunk of n actions: it raises, or it
\* returns (success, failed) with every action in one of the two
BulkOutcomes(n) ==
    {[st |-> "raised", ok |-> 0, failed |-> 0]} \cup
    {[st |-> "ok", ok |-> n - f, failed |-> f] : f \in 0..n}

\* util.py process_chunk: an exception is logged and turned into (0, [])
ProcessChunkUtil(out) ==
    IF out.st = "raised" THEN [st |-> "ok", ok |-> 0, failed |-> 0] ELSE out

\* indexer.py process_chunk: the result or the exception of async_bulk
ProcessChunk(out) == out

IsDone(t) == task[t].st \in {"ok", "raised"}

\* the event loop runs tasks only while the main coroutine is suspended
MainSuspended == mpc \in {"wait", "gather"}

BulkInit ==
    /\ impl \in {"indexer", "util"}
    /\ srcLen \in 0..MaxLen
    /\ chunkSize \in 1..MaxChunkSize
    /\ maxConc \in 1..MaxConc
    /\ taken = 0
    /\ task = [t \in ChunkIds |-> NoTask]
    /\ sem = Semaphore(maxConc)
    /\ pending = {}
    /\ mpc = "loop"
    /\ attempts = [t \in ChunkIds |-> 0]
    /\ success = 0
    /\ errors = 0
    /\ esClosed = FALSE
    /\ doneOrder = <<>>

Total == NumChunks(srcLen, BatchSize(impl, chunkSize))

\* indexer.py:115 the loop waits when the pending set reached the limit
HitLimit(p, m) == Cardinality(p) >= m

\* indexer.py:109-115, util.py:223: the next chunk becomes a task
TakeChunk ==
    /\ mpc = "loop"
    /\ taken < Total
    /\ taken' = taken + 1
    /\ task' = [task EXCEPT ![taken + 1] = [st |-> "created", ok |-> 0, failed |-> 0]]
    /\ pending' = pending \cup {taken + 1}
    /\ mpc' = IF impl = "indexer" /\ HitLimit(pending', maxConc)
              THEN "wait" ELSE "loop"
    /\ UNCHANGED <<impl, srcLen, chunkSize, maxConc, sem, attempts, success,
                   errors, esClosed, doneOrder>>
    /\ UNCHANGED <<modeVars, entVars, searchVars, xrefVars, extVars>>

\* indexer.py:130-131, util.py:224: the source is exhausted
SourceExhausted ==
    /\ mpc = "loop"
    /\ taken = Total
    /\ mpc' = IF impl = "indexer" /\ pending = {} THEN "closing" ELSE "gather"
    /\ UNCHANGED <<impl, srcLen, chunkSize, maxConc, taken, task, sem, pending,
                   attempts, success, errors, esClosed, doneOrder>>
    /\ UNCHANGED <<modeVars, entVars, searchVars, xrefVars, extVars>>

\* async with semaphore: the task enters and sends its bulk request
TaskAcquire(t) ==
    /\ MainSuspended
    /\ task[t].st = "created"
    /\ sem > 0
    /\ sem' = sem - 1
    /\ task' = [task EXCEPT ![t].st = "inflight"]
    /\ attempts' = [attempts EXCEPT ![t] = @ + 1]
    /\ UNCHANGED <<impl, srcLen, chunkSize, maxConc, taken, pending, mpc,
                   success, errors, esClosed, doneOrder>>
    /\ UNCHANGED <<modeVars, entVars, searchVars, xrefVars, extVars>>

\* the bulk request of a task is answered; the semaphore is released
TaskFinish(t) ==
    /\ MainSuspended
    /\ task[t].st = "inflight"
    /\ \E out \in BulkOutcomes(ChunkLen(srcLen, BatchSize(impl, chunkSize), t)) :
          task' = [task EXCEPT ![t] =
                      IF impl = "indexer" THEN ProcessChunk(out)
                                          ELSE ProcessChunkUtil(out)]
    /\ sem' = sem + 1
    /\ doneOrder' = Append(doneOrder, t)
    /\ UNCHANGED <<impl, srcLen, chunkSize, maxConc, taken, pending, mpc,
                   attempts, success, errors, esClosed>>
    /\ UNCHANGED <<modeVars, entVars, searchVars, xrefVars, extVars>>

RECURSIVE SumOk(_), SumFailed(_)
SumOk(S) == IF S = {} THEN 0
            ELSE LET t == CHOOSE x \in S : TRUE IN task[t].ok + SumOk(S \ {t})

\* indexer.py:124-127,135-138: len(result[1]) per result, 1 per exception
SumFailed(S) ==
    IF S = {} THEN 0
    ELSE LET t == CHOOSE x \in S : TRUE
         IN (IF task[t].st = "raised" THEN 1 ELSE task[t].failed) + SumFailed(S \ {t})

\* util.py:228-234: an exception result is skipped, not counted
RECURSIVE SumFailedUtil(_)
SumFailedUtil(S) ==
    IF S = {} THEN 0
    ELSE LET t == CHOOSE x \in S : TRUE
         IN (IF task[t].st = "raised" THEN 0 ELSE task[t].failed) + SumFailedUtil(S \ {t})

\* the pending set is lost when asyncio.wait returns
WaitResultDropsPending(p) ==
    [done |-> {t \in p : IsDone(t)}, pending |-> {}]

\* indexer.py:116-118: asyncio.wait(FIRST_COMPLETED) splits the pending set
WaitResult(p) ==
    [done |-> {t \in p : IsDone(t)}, pending |-> {t \in p : ~IsDone(t)}]

\* a task's exception leaves the tally loop
ChunkErrorEscapes(done) == \E t \in done : task[t].st = "raised"

\* indexer.py:120-138: a task's exception is caught (try/except in the loop,
\* return_exceptions=True in gather) and never leaves bulk_actions_async
ChunkErrorPropagates(done) == FALSE

\* indexer.py:116-127: asyncio.wait returns and the done tasks are tallied
WaitReturn ==
    /\ mpc = "wait"
    /\ \E t \in pending : IsDone(t)
    /\ LET r == WaitResult(pending) IN
          /\ pending' = r.pending
          /\ success' = success + SumOk(r.done)
          /\ errors' = errors + SumFailed(r.done)
          /\ mpc' = IF ChunkErrorPropagates(r.done) THEN "abort" ELSE "loop"
    /\ UNCHANGED <<impl, srcLen, chunkSize, maxConc, taken, task, sem,
                   attempts, esClosed, doneOrder>>
    /\ UNCHANGED <<modeVars, entVars, searchVars, xrefVars, extVars>>

\* indexer.py:131-138, util.py:224-234: gather returns, results are tallied
GatherReturn ==
    /\ mpc = "gather"
    /\ \A t \in pending : IsDone(t)
    /\ success' = success + SumOk(pending)
    /\ errors' = errors + (IF impl = "indexer" THEN SumFailed(pending)
                                               ELSE SumFailedUtil(pending))
    /\ mpc' = IF impl = "indexer" /\ ChunkErrorPropagates(pending)
              THEN "abort" ELSE "closing"
    /\ UNCHANGED <<impl, srcLen, chunkSize, maxConc, taken, task, sem, pending,
                   attempts, esClosed, doneOrder>>
    /\ UNCHANGED <<modeVars, entVars, searchVars, xrefVars, extVars>>

\* indexer.py:140-147, util.py:236-240: the client is closed, the call returns
Close ==
    /\ mpc \in {"closing", "abort"}
    /\ esClosed' = TRUE
    /\ mpc' = IF mpc = "closing" THEN "returned" ELSE "failed"
    /\ UNCHANGED <<impl, srcLen, chunkSize, maxConc, taken, task, sem, pending,
                   attempts, success, errors, doneOrder>>
    /\ UNCHANGED <<modeVars, entVars, searchVars, xrefVars, extVars>>

BulkNext ==
    \/ TakeChunk
    \/ SourceExhausted
    \/ \E t \in ChunkIds : TaskAcquire(t)
    \/ \E t \in ChunkIds : TaskFinish(t)
    \/ WaitReturn
    \/ GatherReturn
    \/ Close

\* the state of the bulk pipeline while no bulk run is modelled
BulkIdle ==
    /\ impl = "indexer" /\ srcLen = 0 /\ chunkSize = 1 /\ maxConc = 1
    /\ taken = 0 /\ task = [t \in ChunkIds |-> NoTask] /\ sem = 0
    /\ pending = {} /\ mpc = "idle" /\ attempts = [t \in ChunkIds |-> 0]
    /\ success = 0 /\ errors = 0 /\ esClosed = FALSE /\ doneOrder = <<>>

(***************************************************************************)
(* Index topology: index/indexes.py.                                       *)
(***************************************************************************)
BUCKETS == {"things", "intervals", "documents", "pages"}

PAGES == {"Page", "Pages"}

\* The schemata of the FollowTheMoney model that the entity operations are
\* exercised with; Schema.names gives a schema's own name and its ancestors'.
Schemata == {"Thing", "Interval", "Person", "Document", "Pages", "Ownership",
             "Page", "Event", "Mention"}

SchemaNames(s) ==
    CASE s = "Thing" -> {"Thing"}
      [] s = "Interval" -> {"Interval"}
      [] s = "Person" -> {"Person", "LegalEntity", "Thing"}
      [] s = "Document" -> {"Document", "Analyzable", "Thing"}
      [] s = "Pages" -> {"Pages", "Document", "Analyzable", "Thing"}
      [] s = "Ownership" -> {"Ownership", "Interest", "Interval"}
      [] s = "Page" -> {"Page"}
      [] s = "Event" -> {"Event", "Interval", "Analyzable", "Thing"}
      [] s = "Mention" -> {"Mention"}

IsA(s, name) == name \in SchemaNames(s)

Abstract(s) == s \in {"Thing", "Interval"}

\* the Interval check is made before the Thing check
SchemaBucketIntervalFirst(s) ==
    IF s \in PAGES THEN "pages"
    ELSE IF IsA(s, "Document") THEN "documents"
    ELSE IF IsA(s, "Interval") THEN "intervals"
    ELSE "things"

\* indexes.py:50-62
SchemaBucket(s) ==
    IF s \in PAGES THEN "pages"
    ELSE IF IsA(s, "Document") THEN "documents"
    ELSE IF IsA(s, "Thing") THEN "things"
    ELSE IF IsA(s, "Interval") THEN "intervals"
    ELSE "things"

\* indexes.py:116-118 with indexes.py:72-78; index_write is the one read
\* version (settings.py:33-34), so an index is named by its bucket
EntitiesWriteIndex(s) == SchemaBucket(s)

\* indexes.py:81-113 for schema=None: the indexes of every concrete schema
EntitiesReadIndexAll == {SchemaBucket(s) : s \in {x \in Schemata : ~Abstract(x)}}

(***************************************************************************)
(* Entity operations: index/entities.py, transform/entity.py.              *)
(***************************************************************************)
Ids == {"e1"}

Datasets == {"ds1", "ds2"}

\* the concrete schemata entities are indexed with
EntitySchemas == {"Person", "Document", "Pages"}

NoSchema == "none"

NoIndex == "none"

NoRouting == "none"

\* index/util.py:49-52
RefreshSync(sync) == IF testing THEN TRUE ELSE sync

\* util.py valid_dataset: dataset_name_check returns a valid name unchanged
ValidDataset(d) == d

\* entities.py:124-154: the ids query is a search, so it sees an id only in
\* the indexes refreshed since the id was written, and the hits are put in
\* a dict keyed by id: of several hits for one id, one (the last) is yielded
EntitiesByIds(vis, id) ==
    LET found == {b \in EntitiesReadIndexAll : id \in vis[b]}
    IN  IF found = {} THEN {{}} ELSE {{k} : k \in found}

\* index/util.py:254-257 delete_safe: a real-time delete by id
DeleteSafe(st, vis, index, id, sync) ==
    LET st2 == [st EXCEPT ![index] = @ \ {id}]
    IN  [stored |-> st2,
         visible |-> IF RefreshSync(sync) THEN [vis EXCEPT ![index] = st2[index]]
                     ELSE vis]

\* a backend write or delete request and its refresh parameter
Request(kind, refresh) == [kind |-> kind, refresh |-> refresh]

NoIssued == [sync |-> FALSE, requests |-> {}]

\* entities.py:264-272 for the set of indexes entities_by_ids yielded
DeleteEntityFrom(st, vis, yields, id, exclude) ==
    LET ex == IF exclude = NoSchema THEN NoIndex ELSE EntitiesWriteIndex(exclude)
        targets == {b \in yields : b # ex}
        st2 == [b \in BUCKETS |-> IF b \in targets THEN st[b] \ {id} ELSE st[b]]
    IN  [stored |-> st2,
         visible |-> [b \in BUCKETS |->
                        IF b \in targets /\ RefreshSync(FALSE) THEN st2[b]
                        ELSE vis[b]],
         requests |-> {Request("delete", RefreshSync(FALSE)) : b \in targets}]

\* entities.py:195-261 format_proxy: the action of the entity, without _routing
FormatProxy(ds, id, schema) ==
    [id |-> id, index |-> EntitiesWriteIndex(schema), dataset |-> ds,
     routing |-> NoRouting]

\* transform/entity.py:37-104 format_entity
FormatEntity(ds, id, schema) ==
    [id |-> id, index |-> EntitiesWriteIndex(schema), dataset |-> ValidDataset(ds),
     routing |-> ValidDataset(ds)]

\* the bulk pipeline writes an action; refresh is refresh_sync(sync)
BulkWrite(st, vis, a, sync) ==
    LET st2 == [st EXCEPT ![a.index] = @ \cup {a.id}]
    IN  [stored |-> st2,
         visible |-> IF RefreshSync(sync) THEN [vis EXCEPT ![a.index] = st2[a.index]]
                     ELSE vis]

NoAction == [id |-> "none", index |-> NoIndex, dataset |-> "none", routing |-> NoRouting]

\* every index was refreshed since its last write
Fresh == \A b \in BUCKETS : visible[b] = stored[b]

EntInit ==
    /\ testing \in BOOLEAN
    /\ stored = [b \in BUCKETS |-> {}]
    /\ visible = [b \in BUCKETS |-> {}]
    /\ lastSchema = [i \in Ids |-> NoSchema]
    /\ handed = NoAction
    /\ formatted = NoAction
    /\ lastOp = [op |-> "none", id |-> "none", exclude |-> NoSchema, fresh |-> TRUE]
    /\ issued = NoIssued

EntIdle ==
    /\ testing = FALSE
    /\ stored = [b \in BUCKETS |-> {}]
    /\ visible = [b \in BUCKETS |-> {}]
    /\ lastSchema = [i \in Ids |-> NoSchema]
    /\ handed = NoAction
    /\ formatted = NoAction
    /\ lastOp = [op |-> "none", id |-> "none", exclude |-> NoSchema, fresh |-> TRUE]
    /\ issued = NoIssued

\* entities.py:173-177 index_bulk of one entity
IndexBulk(ds, id, schema, sync) ==
    LET a == FormatProxy(ds, id, schema)
        w == BulkWrite(stored, visible, a, sync)
    IN  /\ stored' = w.stored
        /\ visible' = w.visible
        /\ handed' = a
        /\ lastSchema' = [lastSchema EXCEPT ![id] = schema]
        /\ lastOp' = [op |-> "index_bulk", id |-> id, exclude |-> NoSchema,
                        fresh |-> Fresh]
        /\ issued' = [sync |-> sync,
                      requests |-> {Request("index", RefreshSync(sync))}]
        /\ UNCHANGED <<testing, formatted>>
        /\ UNCHANGED <<bulkVars, modeVars, searchVars, xrefVars, extVars>>

\* entities.py:168-170 index_proxy: delete_entity(exclude=schema), index_bulk
IndexProxy(ds, id, schema, sync) ==
    \E yields \in EntitiesByIds(visible, id) :
        LET d == DeleteEntityFrom(stored, visible, yields, id, schema)
            a == FormatProxy(ds, id, schema)
            w == BulkWrite(d.stored, d.visible, a, sync)
        IN  /\ stored' = w.stored
            /\ visible' = w.visible
            /\ handed' = a
            /\ lastSchema' = [lastSchema EXCEPT ![id] = schema]
            /\ lastOp' = [op |-> "index_proxy", id |-> id, exclude |-> schema,
                        fresh |-> Fresh]
            /\ issued' = [sync |-> sync,
                          requests |-> d.requests \cup
                                       {Request("index", RefreshSync(sync))}]
            /\ UNCHANGED <<testing, formatted>>
            /\ UNCHANGED <<bulkVars, modeVars, searchVars, xrefVars, extVars>>

\* entities.py:264-272 delete_entity
DeleteEntity(id, exclude, sync) ==
    \E yields \in EntitiesByIds(visible, id) :
        LET d == DeleteEntityFrom(stored, visible, yields, id, exclude)
        IN  /\ stored' = d.stored
            /\ visible' = d.visible
            /\ lastOp' = [op |-> "delete_entity", id |-> id, exclude |-> exclude,
                        fresh |-> Fresh]
            /\ issued' = [sync |-> sync, requests |-> d.requests]
            /\ UNCHANGED <<testing, lastSchema, handed, formatted>>
            /\ UNCHANGED <<bulkVars, modeVars, searchVars, xrefVars, extVars>>

\* transform/entity.py:37-104 called on an entity (tests/test_routing.py:9-12)
TransformEntity(ds, id, schema) ==
    LET a == FormatEntity(ds, id, schema)
    IN  /\ formatted' = a
        /\ lastOp' = [op |-> "format_entity", id |-> id, exclude |-> NoSchema,
                        fresh |-> Fresh]
        /\ issued' = NoIssued
        /\ UNCHANGED <<testing, stored, visible, lastSchema, handed>>
        /\ UNCHANGED <<bulkVars, modeVars, searchVars, xrefVars, extVars>>

\* the backend refreshes an index: its searchable view catches up
Refresh(b) ==
    /\ visible[b] # stored[b]
    /\ visible' = [visible EXCEPT ![b] = stored[b]]
    /\ UNCHANGED <<testing, stored, lastSchema, handed, formatted, lastOp, issued>>
    /\ UNCHANGED <<bulkVars, modeVars, searchVars, xrefVars, extVars>>

IndexProxyNext ==
    \/ \E ds \in Datasets, id \in Ids, s \in EntitySchemas, sync \in BOOLEAN :
          IndexProxy(ds, id, s, sync)
    \/ \E b \in BUCKETS : Refresh(b)

EntNext ==
    \/ \E ds \in Datasets, id \in Ids, s \in EntitySchemas, sync \in BOOLEAN :
          IndexProxy(ds, id, s, sync)
    \/ \E ds \in Datasets, id \in Ids, s \in EntitySchemas, sync \in BOOLEAN :
          IndexBulk(ds, id, s, sync)
    \/ \E id \in Ids, ex \in EntitySchemas \cup {NoSchema}, sync \in BOOLEAN :
          DeleteEntity(id, ex, sync)
    \/ \E ds \in Datasets, id \in Ids, s \in EntitySchemas :
          TransformEntity(ds, id, s)
    \/ \E b \in BUCKETS : Refresh(b)

(***************************************************************************)
(* The bulk-indexing-mode scope (index/util.py bulk_indexing_mode,         *)
(* exercised by tests/test_indexer.py:132-176).                            *)
(***************************************************************************)
MaxReplicas == 1

\* the indexes the pattern <prefix>-entity-* names
EntityIndexes == BUCKETS

ConfiguredIntervals == {"1s"}

OtherIntervals == {"2s"}

BulkIntervals == {"300s", "15m"}

\* the settings the configuration asks for (tests/test_indexer.py:170-176)
ConfiguredSettings(cfg) ==
    [refresh_interval |-> cfg.refresh_interval, durability |-> "request",
     replicas |-> cfg.replicas]

\* the temporary settings of the scope (tests/test_indexer.py:160-168)
BulkSettings(interval) ==
    [refresh_interval |-> interval, durability |-> "async", replicas |-> 0]

ExitKinds == {"normal", "error", "cancel"}

\* the settings are restored after the body only when it ends normally
RestoresOnNormalEnd(kind) == kind = "normal"

\* the exits of the body on which the scope restores the settings
RestoresOn(kind) == kind \in ExitKinds

ModeInit ==
    /\ modeCfg \in [refresh_interval : ConfiguredIntervals, replicas : 0..MaxReplicas]
    /\ idxSettings \in [EntityIndexes ->
                          [refresh_interval : ConfiguredIntervals \cup OtherIntervals,
                           durability : {"request"},
                           replicas : 0..MaxReplicas]]
    /\ modePc = "outside"
    /\ modeExit = "none"

ModeIdle ==
    /\ modeCfg = [refresh_interval |-> "1s", replicas |-> 0]
    /\ idxSettings = [i \in EntityIndexes |-> ConfiguredSettings(modeCfg)]
    /\ modePc = "outside"
    /\ modeExit = "none"

\* entering the scope: the temporary settings are put on every entity index
EnterBulkMode(interval) ==
    /\ modePc \in {"outside", "exited"}
    /\ idxSettings' = [i \in EntityIndexes |-> BulkSettings(interval)]
    /\ modePc' = "inside"
    /\ modeExit' = "none"
    /\ UNCHANGED modeCfg
    /\ UNCHANGED <<bulkVars, entVars, searchVars, xrefVars, extVars>>

\* the body ends (normally, by an error, or cancelled) and the scope exits
LeaveBulkMode(kind) ==
    /\ modePc = "inside"
    /\ idxSettings' = IF RestoresOn(kind)
                      THEN [i \in EntityIndexes |-> ConfiguredSettings(modeCfg)]
                      ELSE idxSettings
    /\ modePc' = "exited"
    /\ modeExit' = kind
    /\ UNCHANGED modeCfg
    /\ UNCHANGED <<bulkVars, entVars, searchVars, xrefVars, extVars>>

ModeNext ==
    \/ \E interval \in BulkIntervals : EnterBulkMode(interval)
    \/ \E kind \in ExitKinds : LeaveBulkMode(kind)

(***************************************************************************)
(* Authorization of a search: query/util.py, model.py; the compilation of  *)
(* the request body is query/base.py.                                      *)
(***************************************************************************)
DocIds == {"d1", "d2", "d3"}

MatchAll == [op |-> "match_all", field |-> "", values |-> {}]

MatchNone == [op |-> "match_none", field |-> "", values |-> {}]

Terms(field, values) == [op |-> "terms", field |-> field, values |-> values]

Auths == [datasets : SUBSET Datasets, is_admin : BOOLEAN]

\* an empty dataset list is taken for no restriction
DatasetsQueryEmptyIsAll(datasets, field, auth_is_admin) ==
    IF auth_is_admin \/ datasets = {} THEN MatchAll ELSE Terms(field, datasets)

\* query/util.py:67-76
DatasetsQuery(datasets, field, auth_is_admin) ==
    IF auth_is_admin THEN MatchAll
    ELSE IF datasets = {} THEN MatchNone
    ELSE Terms(field, datasets)

\* model.py:15-16 SearchAuth.datasets_query
AuthDatasetsQuery(auth, field) ==
    DatasetsQuery(auth.datasets, field, auth.is_admin)

\* query/util.py:18-32 (term and terms differ only in the number of values)
FieldFilterQuery(field, values) ==
    IF values = {} THEN MatchAll
    ELSE IF field \in {"_id", "id"} THEN [op |-> "ids", field |-> "id", values |-> values]
    ELSE Terms(IF field = "names" THEN "fingerprints" ELSE field, values)

\* the backend's evaluation of a clause on a document
Matches(clause, doc) ==
    CASE clause.op = "match_all" -> TRUE
      [] clause.op = "match_none" -> FALSE
      [] OTHER -> doc[clause.field] \in clause.values

\* the default AUTHZ_FIELD of a query class
AUTHZ_FIELD == "dataset"

\* the compiled request: a filter on a faceted field is a post_filter, any
\* other filter and the authorization clause are in the query's filter
CompileSearch(auth, datasetFilter, facetDataset) ==
    LET user == IF datasetFilter = {} THEN {}
                ELSE {FieldFilterQuery("dataset", datasetFilter)}
    IN  [filter |-> (IF facetDataset THEN {} ELSE user)
                        \cup {AuthDatasetsQuery(auth, AUTHZ_FIELD)},
         post_filter |-> IF facetDataset THEN user ELSE {}]

Doc(d) == [id |-> d, dataset |-> docs[d]]

\* the hits of a request: the documents every clause of filter and
\* post_filter matches
Execute(body) ==
    {d \in DocIds : /\ \A c \in body.filter : Matches(c, Doc(d))
                    /\ \A c \in body.post_filter : Matches(c, Doc(d))}

NoSearch ==
    [done |-> FALSE, auth |-> [datasets |-> {}, is_admin |-> FALSE],
     filter |-> {}, facet |-> FALSE]

SearchInit ==
    /\ docs \in [DocIds -> Datasets]
    /\ lastSearch = NoSearch
    /\ hits = {}

SearchIdle ==
    /\ docs = [d \in DocIds |-> "ds1"]
    /\ lastSearch = NoSearch
    /\ hits = {}

\* EntitiesQuery(parser).search() for a user, filter:dataset values and an
\* optional facet=dataset
Search(auth, datasetFilter, facetDataset) ==
    /\ hits' = Execute(CompileSearch(auth, datasetFilter, facetDataset))
    /\ lastSearch' = [done |-> TRUE, auth |-> auth, filter |-> datasetFilter,
                      facet |-> facetDataset]
    /\ UNCHANGED docs
    /\ UNCHANGED <<bulkVars, modeVars, entVars, xrefVars, extVars>>

SearchNext ==
    \E auth \in Auths, f \in SUBSET Datasets, facet \in BOOLEAN : Search(auth, f, facet)

(***************************************************************************)
(* The xref index: index/xref.py.                                          *)
(***************************************************************************)
MaxXref == 2

XrefEntities == {"a", "b"}

XrefRecords ==
    [entity_id : XrefEntities, collection_id : Datasets,
     match_id : XrefEntities, match_collection_id : Datasets]

\* xref.py:59 the record's _id: hash_data of (entity id, collection id, match id)
XrefId(r) == <<r.entity_id, r.collection_id, r.match_id>>

\* xref.py:91-100: the filters of the scan; the caller's dataset list is
\* handed to datasets_query without an admin flag
IterMatches(collection_id, allowed_datasets) ==
    {r \in xrefs :
        /\ Matches(Terms("collection_id", {collection_id}), r)
        /\ Matches(DatasetsQuery(allowed_datasets, "match_collection_id", FALSE), r)}

NoScan ==
    [done |-> FALSE, collection_id |-> "none",
     auth |-> [datasets |-> {}, is_admin |-> FALSE]]

XrefInit ==
    /\ xrefs = {}
    /\ lastScan = NoScan
    /\ yielded = {}

XrefIdle == XrefInit

\* xref.py:86-88 index_matches of one match: the record replaces the one
\* stored under the same _id
IndexMatches(r) ==
    /\ Cardinality({x \in xrefs : XrefId(x) # XrefId(r)}) < MaxXref
    /\ xrefs' = {x \in xrefs : XrefId(x) # XrefId(r)} \cup {r}
    /\ UNCHANGED <<lastScan, yielded>>
    /\ UNCHANGED <<bulkVars, modeVars, entVars, searchVars, extVars>>

\* iter_matches for a requested dataset on behalf of a user
IterMatchesCall(collection_id, auth) ==
    /\ yielded' = IterMatches(collection_id, auth.datasets)
    /\ lastScan' = [done |-> TRUE, collection_id |-> collection_id, auth |-> auth]
    /\ UNCHANGED xrefs
    /\ UNCHANGED <<bulkVars, modeVars, entVars, searchVars, extVars>>

XrefNext ==
    \/ \E r \in XrefRecords : IndexMatches(r)
    \/ \E c \in Datasets, auth \in Auths : IterMatchesCall(c, auth)

(***************************************************************************)
(* The cross-bucket duplicate cleanup:                                     *)
(* contrib/cleanup_cross_bucket_duplicates.py.                             *)
(***************************************************************************)
MaxBatch == 2

MaxRuns == 2

CleanupIds == {"e1", "e2"}

\* cleanup_cross_bucket_duplicates.py:48-52
BUCKET_CLEANUP_PAIRS == <<"pages", "documents">>

KeepBucket == BUCKET_CLEANUP_PAIRS[1]

\* the duplicates are deleted from the bucket that is kept
DeleteBucketIsKeepBucket == BUCKET_CLEANUP_PAIRS[1]

\* cleanup_cross_bucket_duplicates.py:208: the bucket query_delete is aimed at
DeleteBucket == BUCKET_CLEANUP_PAIRS[2]

\* cleanup_cross_bucket_duplicates.py:55-85 with dataset=None: the scroll
\* yields the ids the search view of the index holds when it is opened
IterIndexIds(vis, index) == vis[index]

\* cleanup_cross_bucket_duplicates.py:88-120 with dataset=None: an ids search
FindIdsInIndex(vis, index, ids) == ids \cap vis[index]

\* indexer.py:37-53: delete_by_query deletes the documents its search finds
\* and that are still stored (conflicts="proceed"), then refreshes if asked
QueryDeleteHits(st, vis, index, ids) == ids \cap vis[index] \cap st[index]

NoStats == [found |-> 0, deleted |-> 0, errors |-> 0]

NoRun == [valid |-> FALSE, execute |-> FALSE, errors |-> 0, fresh |-> FALSE]

BucketsRefreshed ==
    /\ visible[KeepBucket] = stored[KeepBucket]
    /\ visible[DeleteBucket] = stored[DeleteBucket]

CleanupIdle ==
    /\ cleanPc = "idle"
    /\ dryRun = TRUE
    /\ batchSize = 1
    /\ toScan = {}
    /\ stats = NoStats
    /\ runStart = [no |-> 0, dups |-> {}, fresh |-> TRUE]
    /\ prevRun = NoRun

\* the entity indexes the cleanup is started on: any content of the two
\* buckets that index_bulk, delete_entity and the refreshes can leave
CleanupStores ==
    /\ testing \in BOOLEAN
    /\ stored \in [BUCKETS -> SUBSET CleanupIds]
    /\ visible \in [BUCKETS -> SUBSET CleanupIds]
    /\ \A b \in BUCKETS \ {KeepBucket, DeleteBucket} :
          stored[b] = {} /\ visible[b] = {}
    /\ testing => visible = stored
    /\ lastSchema = [i \in Ids |-> NoSchema]
    /\ handed = NoAction
    /\ formatted = NoAction
    /\ lastOp = [op |-> "none", id |-> "none", exclude |-> NoSchema, fresh |-> TRUE]
    /\ issued = NoIssued

\* cleanup_cross_bucket_duplicates.py:205-220 and 144-163: a run starts and
\* the scroll over the keep index is opened
StartCleanup(dry, bs) ==
    /\ cleanPc \in {"idle", "done"}
    /\ runStart.no < MaxRuns
    /\ cleanPc' = "scan"
    /\ dryRun' = dry
    /\ batchSize' = bs
    /\ toScan' = IterIndexIds(visible, KeepBucket)
    /\ stats' = NoStats
    /\ runStart' = [no |-> runStart.no + 1,
                    dups |-> stored[KeepBucket] \cap stored[DeleteBucket],
                    fresh |-> BucketsRefreshed]
    /\ prevRun' = IF cleanPc = "done"
                  THEN [valid |-> TRUE, execute |-> ~dryRun,
                        errors |-> stats.errors, fresh |-> runStart.fresh]
                  ELSE NoRun
    /\ UNCHANGED <<coreVars, exceptCleanup>>

\* cleanup_cross_bucket_duplicates.py:161-181 and 221-257: one batch of
\* scanned ids is looked up in the delete index and its duplicates handled
CleanupBatch(batch, outcome, removed) ==
    /\ cleanPc = "scan"
    /\ batch \subseteq toScan
    /\ Cardinality(batch) = Min(batchSize, Cardinality(toScan))
    /\ batch # {}
    /\ toScan' = toScan \ batch
    /\ LET duplicates == FindIdsInIndex(visible, DeleteBucket, batch)
           n == Cardinality(duplicates)
           found == QueryDeleteHits(stored, visible, DeleteBucket, duplicates)
       IN  IF duplicates = {}
           THEN /\ outcome = "ok" /\ removed = {}
                /\ UNCHANGED <<stats, stored, visible>>
           ELSE IF dryRun
           THEN /\ outcome = "ok" /\ removed = {}
                /\ stats' = [stats EXCEPT !.found = @ + n, !.deleted = @ + n]
                /\ UNCHANGED <<stored, visible>>
           ELSE IF outcome = "ok"
           THEN /\ removed = found
                /\ stats' = [stats EXCEPT !.found = @ + n,
                                          !.deleted = @ + Cardinality(found)]
                /\ stored' = [stored EXCEPT ![DeleteBucket] = @ \ found]
                /\ visible' = IF RefreshSync(TRUE)
                              THEN [visible EXCEPT ![DeleteBucket] =
                                       stored[DeleteBucket] \ found]
                              ELSE visible
           ELSE \* query_delete raised, after deleting some of the found
                /\ removed \subseteq found
                /\ stats' = [stats EXCEPT !.found = @ + n, !.errors = @ + n]
                /\ stored' = [stored EXCEPT ![DeleteBucket] = @ \ removed]
                /\ UNCHANGED visible
    /\ UNCHANGED <<cleanPc, dryRun, batchSize, runStart, prevRun>>
    /\ UNCHANGED <<testing, lastSchema, handed, formatted, lastOp, issued>>
    /\ UNCHANGED <<bulkVars, modeVars, searchVars, xrefVars, exceptCleanup>>

\* cleanup_cross_bucket_duplicates.py:183 and 259: the scroll is exhausted
\* and the statistics are returned
FinishCleanup ==
    /\ cleanPc = "scan"
    /\ toScan = {}
    /\ cleanPc' = "done"
    /\ UNCHANGED <<dryRun, batchSize, toScan, stats, runStart, prevRun>>
    /\ UNCHANGED <<coreVars, exceptCleanup>>

CleanupNext ==
    \/ \E dry \in BOOLEAN, bs \in 1..MaxBatch : StartCleanup(dry, bs)
    \/ \E batch \in SUBSET CleanupIds, outcome \in {"ok", "raised"},
          removed \in SUBSET CleanupIds : CleanupBatch(batch, outcome, removed)
    \/ FinishCleanup
    \/ \E b \in {KeepBucket, DeleteBucket} : Refresh(b)

(***************************************************************************)
(* The single-request entry points: index/indexer.py:37-53, 150-164.       *)
(***************************************************************************)
\* indexer.py:150-158 index_safe: one document written by id
IndexSafe(index, id, sync) ==
    /\ stored' = [stored EXCEPT ![index] = @ \cup {id}]
    /\ visible' = IF RefreshSync(sync)
                  THEN [visible EXCEPT ![index] = stored[index] \cup {id}]
                  ELSE visible
    /\ lastOp' = [op |-> "index_safe", id |-> id, exclude |-> NoSchema,
                  fresh |-> Fresh]
    /\ issued' = [sync |-> sync, requests |-> {Request("index", RefreshSync(sync))}]
    /\ UNCHANGED <<testing, lastSchema, handed, formatted>>
    /\ UNCHANGED <<bulkVars, modeVars, searchVars, xrefVars, extVars>>

\* indexer.py:161-164 delete_safe called as an entry point
DeleteSafeCall(index, id, sync) ==
    LET d == DeleteSafe(stored, visible, index, id, sync)
    IN  /\ stored' = d.stored
        /\ visible' = d.visible
        /\ lastOp' = [op |-> "delete_safe", id |-> id, exclude |-> NoSchema,
                      fresh |-> Fresh]
        /\ issued' = [sync |-> sync,
                      requests |-> {Request("delete", RefreshSync(sync))}]
        /\ UNCHANGED <<testing, lastSchema, handed, formatted>>
        /\ UNCHANGED <<bulkVars, modeVars, searchVars, xrefVars, extVars>>

\* indexer.py:37-53 query_delete with an ids query
QueryDelete(index, ids, sync) ==
    LET found == QueryDeleteHits(stored, visible, index, ids)
    IN  /\ stored' = [stored EXCEPT ![index] = @ \ found]
        /\ visible' = IF RefreshSync(sync)
                      THEN [visible EXCEPT ![index] = stored[index] \ found]
                      ELSE visible
        /\ lastOp' = [op |-> "query_delete", id |-> "none", exclude |-> NoSchema,
                      fresh |-> Fresh]
        /\ issued' = [sync |-> sync,
                      requests |-> {Request("delete", RefreshSync(sync))}]
        /\ UNCHANGED <<testing, lastSchema, handed, formatted>>
        /\ UNCHANGED <<bulkVars, modeVars, searchVars, xrefVars, extVars>>

\* every write and delete entry point, with the backend's refreshes
SyncNext ==
    \/ \E ds \in Datasets, id \in Ids, s \in EntitySchemas, sync \in BOOLEAN :
          IndexProxy(ds, id, s, sync)
    \/ \E ds \in Datasets, id \in Ids, s \in EntitySchemas, sync \in BOOLEAN :
          IndexBulk(ds, id, s, sync)
    \/ \E id \in Ids, ex \in EntitySchemas \cup {NoSchema}, sync \in BOOLEAN :
          DeleteEntity(id, ex, sync)
    \/ \E b \in BUCKETS, id \in Ids, sync \in BOOLEAN : IndexSafe(b, id, sync)
    \/ \E b \in BUCKETS, id \in Ids, sync \in BOOLEAN : DeleteSafeCall(b, id, sync)
    \/ \E b \in BUCKETS, ids \in SUBSET Ids, sync \in BOOLEAN :
          QueryDelete(b, ids, sync)
    \/ \E b \in BUCKETS : Refresh(b)

(***************************************************************************)
(* index_bulk over a stream: index/entities.py:173-177.                    *)
(***************************************************************************)
MaxStream == 3

\* dataset names an ingest can be called with: a valid one, the empty
\* string and the literal default
StreamDatasets == {"ds1", "", "default"}

\* a concrete and an abstract schema
StreamSchemas == {"Person", "Thing"}

RECURSIVE SeqsUpTo(_, _)
SeqsUpTo(S, n) ==
    IF n = 0 THEN {<<>>}
    ELSE LET shorter == SeqsUpTo(S, n - 1)
         IN  shorter \cup {Append(q, x) : q \in {r \in shorter : Len(r) = n - 1}, x \in S}

\* entities.py:195-201: format_proxy returns None for an abstract schema and
\* an action otherwise; it does not look at the dataset name
FormatProxyRejects(ds, schema) == Abstract(schema)

StreamIdle ==
    /\ sDataset = "ds1"
    /\ sSource = <<>>
    /\ sPos = 0
    /\ sSubmitted = {}
    /\ sSkipped = {}
    /\ sPc = "idle"

StreamInit ==
    /\ sDataset \in StreamDatasets
    /\ sSource \in SeqsUpTo(StreamSchemas, MaxStream)
    /\ sPos = 0
    /\ sSubmitted = {}
    /\ sSkipped = {}
    /\ sPc = "run"

\* entities.py:175-177: the generators pull the next entity, format it, drop
\* a None, and hand an action to bulk_actions
IndexBulkTake ==
    /\ sPc = "run"
    /\ sPos < Len(sSource)
    /\ sPos' = sPos + 1
    /\ IF FormatProxyRejects(sDataset, sSource[sPos + 1])
       THEN sSkipped' = sSkipped \cup {sPos + 1} /\ UNCHANGED sSubmitted
       ELSE sSubmitted' = sSubmitted \cup {sPos + 1} /\ UNCHANGED sSkipped
    /\ UNCHANGED <<sDataset, sSource, sPc>>
    /\ UNCHANGED <<coreVars, exceptStream>>

\* entities.py:177: the stream is exhausted and bulk_actions returns
IndexBulkEnd ==
    /\ sPc = "run"
    /\ sPos = Len(sSource)
    /\ sPc' = "done"
    /\ UNCHANGED <<sDataset, sSource, sPos, sSubmitted, sSkipped>>
    /\ UNCHANGED <<coreVars, exceptStream>>

StreamNext == IndexBulkTake \/ IndexBulkEnd

(***************************************************************************)
(* Filter placement of the query compiler (Query.get_filters and           *)
(* Query.get_post_filters, exercised by tests/test_search_query.py:69-118).*)
(***************************************************************************)
FilterFields == {"key1", "key2", "date"}

Clause(kind, field) == [kind |-> kind, field |-> field]

\* every filter goes where a facet on its field sends it
PlacementIgnoresKind(kind, field, facets) ==
    IF field \in facets THEN "post_filter" ELSE "filter"

\* where a filter of the kind on the field is placed, given the facets
Placement(kind, field, facets) ==
    IF kind = "terms" /\ field \in facets THEN "post_filter" ELSE "filter"

RequestClauses(req) ==
    {Clause("terms", f) : f \in req.filters} \cup
    {Clause("range", f) : f \in req.ranges}

GetFilters(req) ==
    {c \in RequestClauses(req) : Placement(c.kind, c.field, req.facets) = "filter"}

GetPostFilters(req) ==
    {c \in RequestClauses(req) : Placement(c.kind, c.field, req.facets) = "post_filter"}

NoRequest == [filters |-> {}, ranges |-> {}, facets |-> {}]

NoBody == [filter |-> {}, post_filter |-> {}]

CompileIdle ==
    /\ cRequest = NoRequest
    /\ cBody = NoBody
    /\ cPc = "idle"

CompileInit ==
    /\ cRequest \in [filters : SUBSET FilterFields, ranges : SUBSET FilterFields,
                     facets : SUBSET FilterFields]
    /\ cBody = NoBody
    /\ cPc = "parsed"

\* Query.get_body: the request is compiled
CompileBody ==
    /\ cPc = "parsed"
    /\ cBody' = [filter |-> GetFilters(cRequest),
                 post_filter |-> GetPostFilters(cRequest)]
    /\ cPc' = "compiled"
    /\ UNCHANGED cRequest
    /\ UNCHANGED <<coreVars, exceptCompile>>

CompileNext == CompileBody

(***************************************************************************)
(* Classification of schemata: index/indexes.py:50-62, 122-132.            *)
(***************************************************************************)
NoBucket == "none"

BucketIdle == classified = [s \in Schemata |-> NoBucket]

\* indexes.py:50-62: schema_bucket is asked for a schema (as
\* get_schema_bucket_mapping does for every schema of the model)
Classify(s) ==
    /\ classified[s] = NoBucket
    /\ classified' = [classified EXCEPT ![s] = SchemaBucket(s)]
    /\ UNCHANGED <<coreVars, exceptBucket>>

BucketNext == \E s \in Schemata : Classify(s)

(***************************************************************************)
(* Re-emission of matches: index/xref.py:56-88.                            *)
(***************************************************************************)
MaxEmit == 3

MaxClock == 2

\* the values randint(1, 2**31) is drawn from, scaled down
RandomValues == {1, 2}

\* the matches of one collection that are emitted
EmitMatches ==
    [entity_id : {"a"}, collection_id : {"ds1"}, match_id : {"a", "b"},
     match_collection_id : {"ds2"}]

NoDoc == [id |-> <<>>, random |-> 0, created_at |-> 0]

\* the document is keyed by the time of the emission as well
IndexFormKeyedByTime(m, now, rnd) ==
    [id |-> <<XrefId(m), now>>, entity_id |-> m.entity_id,
     collection_id |-> m.collection_id, match_id |-> m.match_id,
     match_collection_id |-> m.match_collection_id,
     random |-> rnd, created_at |-> now]

\* xref.py:56-83 _index_form: the action of one match
IndexForm(m, now, rnd) ==
    [id |-> XrefId(m), entity_id |-> m.entity_id,
     collection_id |-> m.collection_id, match_id |-> m.match_id,
     match_collection_id |-> m.match_collection_id,
     random |-> rnd, created_at |-> now]

EmitIdle ==
    /\ eIndex = {}
    /\ eCount = [m \in EmitMatches |-> 0]
    /\ eFirst = [m \in EmitMatches |-> NoDoc]
    /\ eLast = [m \in EmitMatches |-> NoDoc]
    /\ eClock = 0

\* xref.py:86-88 index_matches of one match: the bulk write stores the
\* document under its _id, replacing a document stored under the same _id
EmitMatch(m, rnd) ==
    /\ eCount[m] < MaxEmit
    /\ LET doc == IndexForm(m, eClock, rnd)
       IN  /\ eIndex' = {d \in eIndex : d.id # doc.id} \cup {doc}
           /\ eFirst' = IF eCount[m] = 0 THEN [eFirst EXCEPT ![m] = doc] ELSE eFirst
           /\ eLast' = [eLast EXCEPT ![m] = doc]
    /\ eCount' = [eCount EXCEPT ![m] = @ + 1]
    /\ UNCHANGED eClock
    /\ UNCHANGED <<coreVars, exceptEmit>>

\* time passes between emissions
EmitTick ==
    /\ eClock < MaxClock
    /\ eClock' = eClock + 1
    /\ UNCHANGED <<eIndex, eCount, eFirst, eLast>>
    /\ UNCHANGED <<coreVars, exceptEmit>>

EmitNext ==
    \/ \E m \in EmitMatches, rnd \in RandomValues : EmitMatch(m, rnd)
    \/ EmitTick

(***************************************************************************)
(* The command-line entry points: cli.py:54-61 and                         *)
(* contrib/cleanup_cross_bucket_duplicates.py:262-313.                     *)
(***************************************************************************)
Running == [done |-> FALSE, code |-> 0]

Exited(code) == [done |-> TRUE, code |-> code]

CliIdle ==
    /\ cliCommand = "none"
    /\ cliExit = Running

\* cli.py:60-61: index_bulk has returned (it returns nothing, whatever was
\* tallied), the ErrorHandler block ends and the command ends normally
CliIndexEntitiesExit ==
    /\ cliCommand = "index-entities"
    /\ ~cliExit.done
    /\ mpc = "returned"
    /\ cliExit' = Exited(0)
    /\ UNCHANGED cliCommand
    /\ UNCHANGED <<coreVars, exceptCli>>

\* cleanup_cross_bucket_duplicates.py:298-313: main ends after its one run
CleanupMainExit ==
    /\ cliCommand = "cleanup"
    /\ ~cliExit.done
    /\ cleanPc = "done"
    /\ cliExit' = Exited(IF stats.errors > 0 THEN 1 ELSE 0)
    /\ UNCHANGED cliCommand
    /\ UNCHANGED <<coreVars, exceptCli>>

\* the run of the command up to its exit
CliNext ==
    \/ cliCommand = "index-entities" /\ ~cliExit.done /\ BulkNext
    \/ /\ cliCommand = "cleanup" /\ ~cliExit.done
       /\ \/ cleanPc = "idle" /\ \E bs \in 1..MaxBatch : StartCleanup(FALSE, bs)
          \/ \E batch \in SUBSET CleanupIds, outcome \in {"ok", "raised"},
                removed \in SUBSET CleanupIds : CleanupBatch(batch, outcome, removed)
          \/ FinishCleanup
    \/ CliIndexEntitiesExit
    \/ CleanupMainExit

(***************************************************************************)
(* configure_index: index/indexer.py:189-222 (index/util.py:291-336).      *)
(***************************************************************************)
MaxConfigure == 3

SettingKeys == {"number_of_replicas", "refresh_interval"}

SettingValues == {"0", "1", "2"}

\* the live settings give every key a value
LiveSettings == [SettingKeys -> SettingValues]

\* the requested settings name some of the keys
RequestedSettings == UNION {[K -> SettingValues] : K \in SUBSET SettingKeys}

\* every configure_index is taken for a change of settings
SettingsAlwaysChanged(updated, existing) == TRUE

\* util.py:291-300 check_settings_changed: some requested key is not in
\* effect with the requested value
CheckSettingsChanged(updated, existing) ==
    \E k \in DOMAIN updated : k \notin DOMAIN existing \/ updated[k] # existing[k]

\* put_settings: the requested keys take the requested values
PutSettings(live, updated) ==
    [k \in DOMAIN live |-> IF k \in DOMAIN updated THEN updated[k] ELSE live[k]]

\* the settings of a new index: the requested ones over the defaults
CreatedSettings(updated) == PutSettings([k \in SettingKeys |-> "1"], updated)

NoConfigure ==
    [done |-> FALSE, existed |-> FALSE, requested |-> <<>>, before |-> <<>>,
     result |-> FALSE]

AdminIdle ==
    /\ aExists = FALSE
    /\ aOpen = FALSE
    /\ aLive = [k \in SettingKeys |-> "1"]
    /\ aCalls = <<>>
    /\ aLast = NoConfigure
    /\ aRuns = 0

AdminInit ==
    /\ aExists \in BOOLEAN
    /\ aOpen = aExists
    /\ aLive \in LiveSettings
    /\ aCalls = <<>>
    /\ aLast = NoConfigure
    /\ aRuns = 0

\* indexer.py:196-215: configure_index on an existing index; settingsOk and
\* mappingOk are what check_response says of the two responses
ConfigureExisting(updated, settingsOk, mappingOk) ==
    /\ aExists
    /\ aRuns < MaxConfigure
    /\ LET changed == CheckSettingsChanged(updated, aLive)
           first == IF changed THEN <<"close", "put_settings">> ELSE <<>>
           stopped == changed /\ ~settingsOk
       IN  /\ aCalls' = IF stopped THEN first
                        ELSE IF ~mappingOk THEN first \o <<"put_mapping">>
                        ELSE first \o <<"put_mapping", "open">>
           /\ aOpen' = IF stopped \/ ~mappingOk
                       THEN (IF changed THEN FALSE ELSE aOpen)
                       ELSE TRUE
           /\ aLive' = IF changed /\ settingsOk THEN PutSettings(aLive, updated)
                       ELSE aLive
           /\ aLast' = [done |-> TRUE, existed |-> TRUE, requested |-> updated,
                        before |-> aLive, result |-> ~stopped /\ mappingOk]
    /\ aRuns' = aRuns + 1
    /\ UNCHANGED aExists
    /\ UNCHANGED <<coreVars, exceptAdmin>>

\* indexer.py:216-222: configure_index creates the index
ConfigureNew(updated, createOk) ==
    /\ ~aExists
    /\ aRuns < MaxConfigure
    /\ aCalls' = <<"create">>
    /\ aExists' = createOk
    /\ aOpen' = createOk
    /\ aLive' = IF createOk THEN CreatedSettings(updated) ELSE aLive
    /\ aLast' = [done |-> TRUE, existed |-> FALSE, requested |-> updated,
                 before |-> aLive, result |-> createOk]
    /\ aRuns' = aRuns + 1
    /\ UNCHANGED <<coreVars, exceptAdmin>>

AdminNext ==
    \/ \E u \in RequestedSettings, so \in BOOLEAN, mo \in BOOLEAN :
          ConfigureExisting(u, so, mo)
    \/ \E u \in RequestedSettings, co \in BOOLEAN : ConfigureNew(u, co)

(***************************************************************************)
(* process_chunk and the tally of its result: index/indexer.py:67-81 and   *)
(* 116-138.                                                                *)
(***************************************************************************)
MaxItems == 2

\* the per-item answers of the bulk endpoint the model tells apart
ItemAnswers ==
    {[op |-> "index", status |-> 200], [op |-> "index", status |-> 400],
     [op |-> "delete", status |-> 200], [op |-> "delete", status |-> 404],
     [op |-> "delete", status |-> 409]}

\* the bulk helper reports an item as failed unless its status is 2xx
ItemFailed(item) == ~(200 <= item.status /\ item.status < 300)

\* indexer.py:78 failure.get("delete", {}).get("status") == 404
IsDelete404(item) == item.op = "delete" /\ item.status = 404

RECURSIVE SelectItems(_, _)
SelectItems(chunk, failed) ==
    IF chunk = <<>> THEN <<>>
    ELSE (IF ItemFailed(Head(chunk)) = failed THEN <<Head(chunk)>> ELSE <<>>)
         \o SelectItems(Tail(chunk), failed)

RECURSIVE WithoutDelete404(_)
WithoutDelete404(items) ==
    IF items = <<>> THEN <<>>
    ELSE (IF IsDelete404(Head(items)) THEN <<>> ELSE <<Head(items)>>)
         \o WithoutDelete404(Tail(items))

\* indexer.py:76-81: the loop over failed only decides what is logged; the
\* list is returned as async_bulk gave it
ProcessChunkFailed(failed) == failed

NoChunkResult == [st |-> "none", ok |-> 0, failed |-> <<>>]

TallyIdle ==
    /\ tChunk = <<>>
    /\ tResult = NoChunkResult
    /\ tLogged = <<>>
    /\ tSuccess = 0
    /\ tErrors = 0
    /\ tPc = "idle"

TallyInit ==
    /\ tChunk \in SeqsUpTo(ItemAnswers, MaxItems) \ {<<>>}
    /\ tResult = NoChunkResult
    /\ tLogged = <<>>
    /\ tSuccess = 0
    /\ tErrors = 0
    /\ tPc = "chunk"

\* indexer.py:67-81 process_chunk: async_bulk answers with (success, failed),
\* every failure that is not a delete-404 is logged, the pair is returned
ProcessChunkReturns ==
    /\ tPc = "chunk"
    /\ LET failed == SelectItems(tChunk, TRUE) IN
          /\ tResult' = [st |-> "ok", ok |-> Len(SelectItems(tChunk, FALSE)),
                         failed |-> ProcessChunkFailed(failed)]
          /\ tLogged' = WithoutDelete404(failed)
    /\ tPc' = "answered"
    /\ UNCHANGED <<tChunk, tSuccess, tErrors>>
    /\ UNCHANGED <<coreVars, exceptTally>>

\* indexer.py:67-75 process_chunk: async_bulk raises (a transport error, or
\* the helper's BulkIndexError for a chunk with failed items)
ProcessChunkRaises ==
    /\ tPc = "chunk"
    /\ tResult' = [st |-> "raised", ok |-> 0, failed |-> <<>>]
    /\ tPc' = "answered"
    /\ UNCHANGED <<tChunk, tLogged, tSuccess, tErrors>>
    /\ UNCHANGED <<coreVars, exceptTally>>

\* indexer.py:120-127 (and 131-138): the task's result is tallied
TallyResult ==
    /\ tPc = "answered"
    /\ tSuccess' = tSuccess + tResult.ok
    /\ tErrors' = tErrors + (IF tResult.st = "raised" THEN 1 ELSE Len(tResult.failed))
    /\ tPc' = "tallied"
    /\ UNCHANGED <<tChunk, tResult, tLogged>>
    /\ UNCHANGED <<coreVars, exceptTally>>

TallyNext ==
    \/ ProcessChunkReturns
    \/ ProcessChunkRaises
    \/ TallyResult

(***************************************************************************)
(* External cancellation of bulk_actions_async (asyncio.run cancels the    *)
(* main task on a signal): index/indexer.py:107-141, index/util.py:223-240.*)
(***************************************************************************)
CancelIdle == kCancelled = "no" /\ kTaken = 0

\* the task was cancelled before it gave a result
CancelledTask == [st |-> "cancelled", ok |-> 0, failed |-> 0]

\* slots of the semaphore held by the tasks of S
Held(S) == Cardinality({t \in S : task[t].st = "inflight"})

\* indexer.py:116-118 with 139-141: the CancelledError is raised at
\* `await asyncio.wait(...)`; asyncio.wait leaves its tasks alone, `except
\* Exception` does not catch it, and control goes to the finally block
CancelAtWait ==
    /\ kCancelled = "no"
    /\ mpc = "wait"
    /\ mpc' = "abort"
    /\ kCancelled' = "wait"
    /\ kTaken' = taken
    /\ UNCHANGED <<impl, srcLen, chunkSize, maxConc, taken, task, sem, pending,
                   attempts, success, errors, esClosed, doneOrder>>
    /\ UNCHANGED <<modeVars, entVars, searchVars, xrefVars, exceptCancel>>

\* indexer.py:132 with 139-141, util.py:224: the main task is cancelled at
\* `await asyncio.gather(...)`; gather cancels every child that is not done,
\* and the CancelledError reaches the caller once they have ended. indexer.py
\* then runs its finally block; util.py has none and leaves the client open
CancelAtGather ==
    /\ kCancelled = "no"
    /\ mpc = "gather"
    /\ task' = [t \in ChunkIds |->
                   IF t \in pending /\ ~IsDone(t) THEN CancelledTask ELSE task[t]]
    /\ sem' = sem + Held(pending)
    /\ mpc' = IF impl = "indexer" THEN "abort" ELSE "failed"
    /\ kCancelled' = "gather"
    /\ kTaken' = taken
    /\ UNCHANGED <<impl, srcLen, chunkSize, maxConc, taken, pending,
                   attempts, success, errors, esClosed, doneOrder>>
    /\ UNCHANGED <<modeVars, entVars, searchVars, xrefVars, exceptCancel>>

CancelNext ==
    \/ BulkNext
    \/ CancelAtWait
    \/ CancelAtGather

(***************************************************************************)
(* rewrite_mapping_safe: index/indexer.py:167-186, index/util.py:269-288.  *)
(* A JSON value is a scalar, an object (dict) or None.                      *)
(***************************************************************************)
NoItems == [k \in {} |-> k]

None == [kind |-> "none", val |-> "", items |-> NoItems]

Scalar(v) == [kind |-> "scalar", val |-> v, items |-> NoItems]

Dict(f) == [kind |-> "dict", val |-> "", items |-> f]

IsDict(x) == x.kind = "dict"

\* dict.get(key)
Get(d, key) == IF key \in DOMAIN d.items THEN d.items[key] ELSE None

\* no key is held back
IMMUTABLE_Empty == {}

\* indexer.py:172
IMMUTABLE == {"type", "analyzer", "normalizer", "index", "store"}

\* indexer.py:175-186
RECURSIVE RewriteMappingSafe(_, _)
RewriteMappingSafe(pendingMap, existing) ==
    IF ~IsDict(pendingMap) \/ ~IsDict(existing) THEN pendingMap
    ELSE Dict([key \in DOMAIN pendingMap.items \cup DOMAIN existing.items |->
                 IF key \in DOMAIN pendingMap.items
                 THEN LET old_value == Get(existing, key)
                          value == RewriteMappingSafe(pendingMap.items[key], old_value)
                      IN  IF key \in IMMUTABLE /\ old_value # None
                          THEN old_value ELSE value
                 ELSE existing.items[key]])

\* The mappings the function is exercised with are shaped as index mappings
\* are: {"dynamic": .., "properties": {<field>: {"type": .., "copy_to": ..}}}.
\* "type" is also the name of a property of the entity model, and so the
\* name of a field.
FieldNames == {"name", "type"}

FieldParams == {"type", "copy_to"}

ParamValues == {"keyword", "text"}

\* the dicts over some of the keys K with values from V
DictsOver(K, V) == {Dict(f) : f \in UNION {[D -> V] : D \in SUBSET K}}

FieldMappings == DictsOver(FieldParams, {Scalar(v) : v \in ParamValues})

PropertiesMappings == DictsOver(FieldNames, FieldMappings)

IndexMappings ==
    {Dict(f) : f \in UNION {[D -> PropertiesMappings] : D \in SUBSET {"properties"}}}

RewriteIdle ==
    /\ rPending = None
    /\ rExisting = None
    /\ rResult = None
    /\ rPc = "idle"

RewriteInit ==
    /\ rPending \in IndexMappings
    /\ rExisting \in IndexMappings
    /\ rResult = None
    /\ rPc = "call"

\* indexer.py:210 mapping = rewrite_mapping_safe(mapping, config.get("mappings"))
RewriteMapping ==
    /\ rPc = "call"
    /\ rResult' = RewriteMappingSafe(rPending, rExisting)
    /\ rPc' = "done"
    /\ UNCHANGED <<rPending, rExisting>>
    /\ UNCHANGED <<coreVars, exceptRewrite>>

RewriteNext == RewriteMapping

(***************************************************************************)
(* Connection establishment: core.py:32-99.                                *)
(***************************************************************************)
\* core.py:16
MAX_RETRIES == 60

\* the loop never advances
NextAttemptStuck(attempt) == attempt

\* core.py:36, 67: for attempt in range(MAX_RETRIES)
NextAttempt(attempt) == attempt + 1

ConnectIdle ==
    /\ nImpl = "sync"
    /\ nAttempt = 0
    /\ nCreated = 0
    /\ nClosed = 0
    /\ nSlept = 0
    /\ nPc = "idle"

ConnectInit ==
    /\ nImpl \in {"sync", "async"}
    /\ nAttempt = 0
    /\ nCreated = 0
    /\ nClosed = 0
    /\ nSlept = 0
    /\ nPc = "loop"

\* core.py:38-47, 70-84: the client is constructed, info() answers, the
\* client is returned
AttemptSucceeds ==
    /\ nPc = "loop"
    /\ nAttempt < MAX_RETRIES
    /\ nCreated' = nCreated + 1
    /\ nPc' = "returned"
    /\ UNCHANGED <<nImpl, nAttempt, nClosed, nSlept>>
    /\ UNCHANGED <<coreVars, exceptConnect>>

\* core.py:48-56, 85-95: the constructor (created = FALSE) or info()
\* (created = TRUE) raises a connection error; _connect_async closes the
\* client if there is one, both log, sleep RETRY_DELAY and go on
AttemptConnectionError(created) ==
    /\ nPc = "loop"
    /\ nAttempt < MAX_RETRIES
    /\ nCreated' = nCreated + (IF created THEN 1 ELSE 0)
    /\ nClosed' = nClosed + (IF created /\ nImpl = "async" THEN 1 ELSE 0)
    /\ nSlept' = nSlept + 1
    /\ nAttempt' = NextAttempt(nAttempt)
    /\ UNCHANGED <<nImpl, nPc>>
    /\ UNCHANGED <<coreVars, exceptConnect>>

\* core.py:37-48, 68-85: the constructor or info() raises an error that is
\* not a connection error; no except clause matches and it leaves the
\* function as it is
AttemptOtherError(created) ==
    /\ nPc = "loop"
    /\ nAttempt < MAX_RETRIES
    /\ nCreated' = nCreated + (IF created THEN 1 ELSE 0)
    /\ nPc' = "raised_other"
    /\ UNCHANGED <<nImpl, nAttempt, nClosed, nSlept>>
    /\ UNCHANGED <<coreVars, exceptConnect>>

\* core.py:58-60, 97-99: the loop is exhausted
RetriesExhausted ==
    /\ nPc = "loop"
    /\ nAttempt >= MAX_RETRIES
    /\ nPc' = "raised_connection"
    /\ UNCHANGED <<nImpl, nAttempt, nCreated, nClosed, nSlept>>
    /\ UNCHANGED <<coreVars, exceptConnect>>

ConnectNext ==
    \/ AttemptSucceeds
    \/ \E created \in BOOLEAN : AttemptConnectionError(created)
    \/ \E created \in BOOLEAN : AttemptOtherError(created)
    \/ RetriesExhausted

(***************************************************************************)
(* Read index resolution: index/indexes.py:65-113, query/queries.py:26-33. *)
(***************************************************************************)
MaxNames == 2

ReadVersions == {"v1", "v2"}

\* Schema.descendants
Descendants(s) == {x \in Schemata \ {s} : IsA(x, s)}

\* indexes.py:65-69: an index is named by its bucket and its version
BucketIndex(bucket, version) == <<bucket, version>>

\* with no schema given, the scope is the Thing subtree
SchemaScopeThingDefault(names, expand) ==
    LET given == IF names = {} THEN {"Thing"} ELSE names
        all == given \cup (IF expand THEN UNION {Descendants(x) : x \in given} ELSE {})
    IN  {x \in all : ~Abstract(x)}

\* indexes.py:81-94: with no schema given, every schema of the model
SchemaScope(names, expand) ==
    LET given == IF names = {} THEN Schemata ELSE names
        all == given \cup (IF expand THEN UNION {Descendants(x) : x \in given} ELSE {})
    IN  {x \in all : ~Abstract(x)}

\* indexes.py:97-113 entities_index_list, joined by entities_read_index
EntitiesReadIndex(names, expand, versions) ==
    {BucketIndex(SchemaBucket(x), v) : x \in SchemaScope(names, expand), v \in versions}

ScopeIdle ==
    /\ qNames = {}
    /\ qExpand = TRUE
    /\ qVersions = {"v1"}
    /\ qCall = "none"
    /\ qIndexes = {}

ScopeInit ==
    /\ qNames \in {N \in SUBSET Schemata : Cardinality(N) <= MaxNames}
    /\ qExpand \in BOOLEAN
    /\ qVersions \in SUBSET ReadVersions \ {{}}
    /\ qCall = "none"
    /\ qIndexes = {}

\* indexes.py:108-113: a direct call entities_read_index(schema, expand)
ReadIndexCall ==
    /\ qCall = "none"
    /\ qCall' = "read_index"
    /\ qIndexes' = EntitiesReadIndex(qNames, qExpand, qVersions)
    /\ UNCHANGED <<qNames, qExpand, qVersions>>
    /\ UNCHANGED <<coreVars, exceptScope>>

\* queries.py:26-33 EntitiesQuery.get_index: the names come as filter:schema
\* (asSchema) or as filter:schemata
GetIndex(asSchema) ==
    /\ qCall = "none"
    /\ qCall' = IF asSchema THEN "get_index_schema" ELSE "get_index_schemata"
    /\ qIndexes' = IF asSchema /\ qNames # {}
                   THEN EntitiesReadIndex(qNames, FALSE, qVersions)
                   ELSE EntitiesReadIndex(IF qNames = {} THEN {"Thing"} ELSE qNames,
                                          TRUE, qVersions)
    /\ UNCHANGED <<qNames, qExpand, qVersions>>
    /\ UNCHANGED <<coreVars, exceptScope>>

ScopeNext ==
    \/ ReadIndexCall
    \/ \E asSchema \in BOOLEAN : GetIndex(asSchema)

(***************************************************************************)
(* Date simplification: transform/entity.py:86-92 and                      *)
(* index/entities.py:245-251 (the same text). Timestamps of one format     *)
(* compare as their instants do; they are numbered 1..MaxStamp.            *)
(***************************************************************************)
MaxStamp == 3

\* a field the document does not carry
Absent == 0

MinOf(S) == CHOOSE x \in S : \A y \in S : x <= y

\* the earliest value is taken
MaxOfTakesEarliest(S) == CHOOSE x \in S : \A y \in S : x <= y

MaxOf(S) == CHOOSE x \in S : \A y \in S : x >= y

\* entity.py:87-89
StoredCreatedAt(created) == IF created # {} THEN MinOf(created) ELSE Absent

\* entity.py:90-92: updated_at = ensure_list(..) or created_at, then max
StoredUpdatedAt(created, updated) ==
    LET from == IF updated # {} THEN updated ELSE created
    IN  IF from # {} THEN MaxOf(from) ELSE Absent

NoStamps == [created_at |-> Absent, updated_at |-> Absent]

StampIdle ==
    /\ oCreated = {}
    /\ oUpdated = {}
    /\ oStored = NoStamps
    /\ oPc = "idle"

StampInit ==
    /\ oCreated \in SUBSET (1..MaxStamp)
    /\ oUpdated \in SUBSET (1..MaxStamp)
    /\ oStored = NoStamps
    /\ oPc = "format"

\* entity.py:86-92 within format_entity
FormatDates ==
    /\ oPc = "format"
    /\ oStored' = [created_at |-> StoredCreatedAt(oCreated),
                   updated_at |-> StoredUpdatedAt(oCreated, oUpdated)]
    /\ oPc' = "done"
    /\ UNCHANGED <<oCreated, oUpdated>>
    /\ UNCHANGED <<coreVars, exceptStamp>>

StampNext == FormatDates

(***************************************************************************)
(* delete_xref: index/xref.py:103-115.                                     *)
(***************************************************************************)
NoEntity == "none"

NoDelete == [done |-> FALSE, collection |-> "none", entity_id |-> NoEntity,
             removed |-> {}]

XdelIdle == xDeleted = NoDelete

\* xref.py:105-114: the should clauses, one of which must match; the entity
\* clauses replace the collection clauses
DeleteXrefQuery(collection, entity_id) ==
    {r \in XrefRecords :
        IF entity_id # NoEntity
        THEN r.entity_id = entity_id \/ r.match_id = entity_id
        ELSE r.collection_id = collection \/ r.match_collection_id = collection}

\* the xref store holds any records, one per _id
XrefStores ==
    {S \in SUBSET XrefRecords :
        /\ Cardinality(S) <= MaxXref
        /\ \A x, y \in S : XrefId(x) = XrefId(y) => x = y}

XrefDeleteInit ==
    /\ xrefs \in XrefStores
    /\ lastScan = NoScan
    /\ yielded = {}
    /\ xDeleted = NoDelete

\* xref.py:103-115 delete_xref(collection, entity_id)
DeleteXref(collection, entity_id) ==
    /\ xrefs' = xrefs \ DeleteXrefQuery(collection, entity_id)
    /\ xDeleted' = [done |-> TRUE, collection |-> collection,
                    entity_id |-> entity_id,
                    removed |-> xrefs \cap DeleteXrefQuery(collection, entity_id)]
    /\ UNCHANGED <<lastScan, yielded>>
    /\ UNCHANGED <<bulkVars, modeVars, entVars, searchVars, exceptXdel>>

XrefDeleteNext ==
    \E c \in Datasets, e \in XrefEntities \cup {NoEntity} : DeleteXref(c, e)

\* state of the added components while they are not exercised
ExtIdle ==
    /\ CleanupIdle
    /\ StreamIdle
    /\ CompileIdle
    /\ BucketIdle
    /\ EmitIdle
    /\ CliIdle
    /\ AdminIdle
    /\ TallyIdle
    /\ CancelIdle
    /\ RewriteIdle
    /\ ConnectIdle
    /\ ScopeIdle
    /\ StampIdle
    /\ XdelIdle

CoreIdle == BulkIdle /\ ModeIdle /\ EntIdle /\ SearchIdle /\ XrefIdle

IdleExceptCleanup ==
    /\ StreamIdle
    /\ CompileIdle
    /\ BucketIdle
    /\ EmitIdle
    /\ CliIdle
    /\ AdminIdle
    /\ TallyIdle
    /\ CancelIdle
    /\ RewriteIdle
    /\ ConnectIdle
    /\ ScopeIdle
    /\ StampIdle
    /\ XdelIdle

IdleExceptStream ==
    /\ CleanupIdle
    /\ CompileIdle
    /\ BucketIdle
    /\ EmitIdle
    /\ CliIdle
    /\ AdminIdle
    /\ TallyIdle
    /\ CancelIdle
    /\ RewriteIdle
    /\ ConnectIdle
    /\ ScopeIdle
    /\ StampIdle
    /\ XdelIdle

IdleExceptCompile ==
    /\ CleanupIdle
    /\ StreamIdle
    /\ BucketIdle
    /\ EmitIdle
    /\ CliIdle
    /\ AdminIdle
    /\ TallyIdle
    /\ CancelIdle
    /\ RewriteIdle
    /\ ConnectIdle
    /\ ScopeIdle
    /\ StampIdle
    /\ XdelIdle

IdleExceptBucket ==
    /\ CleanupIdle
    /\ StreamIdle
    /\ CompileIdle
    /\ EmitIdle
    /\ CliIdle
    /\ AdminIdle
    /\ TallyIdle
    /\ CancelIdle
    /\ RewriteIdle
    /\ ConnectIdle
    /\ ScopeIdle
    /\ StampIdle
    /\ XdelIdle

IdleExceptEmit ==
    /\ CleanupIdle
    /\ StreamIdle
    /\ CompileIdle
    /\ BucketIdle
    /\ CliIdle
    /\ AdminIdle
    /\ TallyIdle
    /\ CancelIdle
    /\ RewriteIdle
    /\ ConnectIdle
    /\ ScopeIdle
    /\ StampIdle
    /\ XdelIdle

IdleExceptCli ==
    /\ CleanupIdle
    /\ StreamIdle
    /\ CompileIdle
    /\ BucketIdle
    /\ EmitIdle
    /\ AdminIdle
    /\ TallyIdle
    /\ CancelIdle
    /\ RewriteIdle
    /\ ConnectIdle
    /\ ScopeIdle
    /\ StampIdle
    /\ XdelIdle

IdleExceptAdmin ==
    /\ CleanupIdle
    /\ StreamIdle
    /\ CompileIdle
    /\ BucketIdle
    /\ EmitIdle
    /\ CliIdle
    /\ TallyIdle
    /\ CancelIdle
    /\ RewriteIdle
    /\ ConnectIdle
    /\ ScopeIdle
    /\ StampIdle
    /\ XdelIdle

IdleExceptTally ==
    /\ CleanupIdle
    /\ StreamIdle
    /\ CompileIdle
    /\ BucketIdle
    /\ EmitIdle
    /\ CliIdle
    /\ AdminIdle
    /\ CancelIdle
    /\ RewriteIdle
    /\ ConnectIdle
    /\ ScopeIdle
    /\ StampIdle
    /\ XdelIdle

IdleExceptCancel ==
    /\ CleanupIdle
    /\ StreamIdle
    /\ CompileIdle
    /\ BucketIdle
    /\ EmitIdle
    /\ CliIdle
    /\ AdminIdle
    /\ TallyIdle
    /\ RewriteIdle
    /\ ConnectIdle
    /\ ScopeIdle
    /\ StampIdle
    /\ XdelIdle

IdleExceptRewrite ==
    /\ CleanupIdle
    /\ StreamIdle
    /\ CompileIdle
    /\ BucketIdle
    /\ EmitIdle
    /\ CliIdle
    /\ AdminIdle
    /\ TallyIdle
    /\ CancelIdle
    /\ ConnectIdle
    /\ ScopeIdle
    /\ StampIdle
    /\ XdelIdle

IdleExceptConnect ==
    /\ CleanupIdle
    /\ StreamIdle
    /\ CompileIdle
    /\ BucketIdle
    /\ EmitIdle
    /\ CliIdle
    /\ AdminIdle
    /\ TallyIdle
    /\ CancelIdle
    /\ RewriteIdle
    /\ ScopeIdle
    /\ StampIdle
    /\ XdelIdle

IdleExceptScope ==
    /\ CleanupIdle
    /\ StreamIdle
    /\ CompileIdle
    /\ BucketIdle
    /\ EmitIdle
    /\ CliIdle
    /\ AdminIdle
    /\ TallyIdle
    /\ CancelIdle
    /\ RewriteIdle
    /\ ConnectIdle
    /\ StampIdle
    /\ XdelIdle

IdleExceptStamp ==
    /\ CleanupIdle
    /\ StreamIdle
    /\ CompileIdle
    /\ BucketIdle
    /\ EmitIdle
    /\ CliIdle
    /\ AdminIdle
    /\ TallyIdle
    /\ CancelIdle
    /\ RewriteIdle
    /\ ConnectIdle
    /\ ScopeIdle
    /\ XdelIdle

IdleExceptXdel ==
    /\ CleanupIdle
    /\ StreamIdle
    /\ CompileIdle
    /\ BucketIdle
    /\ EmitIdle
    /\ CliIdle
    /\ AdminIdle
    /\ TallyIdle
    /\ CancelIdle
    /\ RewriteIdle
    /\ ConnectIdle
    /\ ScopeIdle
    /\ StampIdle

(***************************************************************************)
(* Specifications.                                                         *)
(***************************************************************************)
Init == BulkInit /\ ModeIdle /\ EntIdle /\ SearchIdle /\ XrefIdle /\ ExtIdle

Next == BulkNext

\* one run of bulk_actions_async, of either implementation
Spec == Init /\ [][Next]_vars

\* the bulk-indexing-mode scope
InitMode == BulkIdle /\ ModeInit /\ EntIdle /\ SearchIdle /\ XrefIdle /\ ExtIdle

SpecMode == InitMode /\ [][ModeNext]_vars

\* sequences of index_proxy calls, with the backend's refreshes
InitEntities == BulkIdle /\ ModeIdle /\ EntInit /\ SearchIdle /\ XrefIdle /\ ExtIdle

SpecIndexProxy == InitEntities /\ [][IndexProxyNext]_vars

\* the entity entry points, with the backend's refreshes
SpecEntities == InitEntities /\ [][EntNext]_vars

\* every write and delete entry point
SpecSync == InitEntities /\ [][SyncNext]_vars

\* searches of users over a stored set of documents
InitSearch == BulkIdle /\ ModeIdle /\ EntIdle /\ SearchInit /\ XrefIdle /\ ExtIdle

SpecSearch == InitSearch /\ [][SearchNext]_vars

\* the xref index and its scans
InitXref == BulkIdle /\ ModeIdle /\ EntIdle /\ SearchIdle /\ XrefInit /\ ExtIdle

SpecXref == InitXref /\ [][XrefNext]_vars

\* runs of the duplicate cleanup over stored entity indexes
InitCleanup ==
    /\ BulkIdle /\ ModeIdle /\ CleanupStores /\ SearchIdle /\ XrefIdle
    /\ CleanupIdle /\ IdleExceptCleanup

SpecCleanup == InitCleanup /\ [][CleanupNext]_vars

\* one index_bulk call over a stream of entities
InitStream == CoreIdle /\ StreamInit /\ IdleExceptStream

SpecStream == InitStream /\ [][StreamNext]_vars

\* compilations of parsed requests
InitCompile == CoreIdle /\ CompileInit /\ IdleExceptCompile

SpecCompile == InitCompile /\ [][CompileNext]_vars

\* schemata classified into buckets, in any order
InitBucket == CoreIdle /\ BucketIdle /\ IdleExceptBucket

SpecBucket == InitBucket /\ [][BucketNext]_vars

\* matches emitted again and again
InitEmit == CoreIdle /\ EmitIdle /\ IdleExceptEmit

SpecEmit == InitEmit /\ [][EmitNext]_vars

\* one run of index-entities or of the cleanup script
InitCli ==
    /\ cliCommand \in {"index-entities", "cleanup"}
    /\ cliExit = Running
    /\ IF cliCommand = "index-entities" THEN BulkInit /\ EntIdle
                                        ELSE BulkIdle /\ CleanupStores
    /\ ModeIdle /\ SearchIdle /\ XrefIdle
    /\ IdleExceptCli

SpecCli == InitCli /\ [][CliNext]_vars

\* configure_index called again and again on one index
InitAdmin == CoreIdle /\ AdminInit /\ IdleExceptAdmin

SpecAdmin == InitAdmin /\ [][AdminNext]_vars

\* one chunk answered by the bulk endpoint and tallied
InitTally == CoreIdle /\ TallyInit /\ IdleExceptTally

SpecTally == InitTally /\ [][TallyNext]_vars

\* a bulk run that may be cancelled from outside
InitCancel == BulkInit /\ ModeIdle /\ EntIdle /\ SearchIdle /\ XrefIdle /\ ExtIdle

SpecCancel == InitCancel /\ [][CancelNext]_vars

\* rewrite_mapping_safe over pairs of index mappings
InitRewrite == CoreIdle /\ RewriteInit /\ IdleExceptRewrite

SpecRewrite == InitRewrite /\ [][RewriteNext]_vars

\* one connection establishment
InitConnect == CoreIdle /\ ConnectInit /\ IdleExceptConnect

SpecConnect == InitConnect /\ [][ConnectNext]_vars

\* the same, where the function is never left unscheduled in mid-loop
SpecConnectFair == SpecConnect /\ WF_vars(ConnectNext)

\* one resolution of the read indexes
InitScope == CoreIdle /\ ScopeInit /\ IdleExceptScope

SpecScope == InitScope /\ [][ScopeNext]_vars

\* one entity's timestamps simplified
InitStamp == CoreIdle /\ StampInit /\ IdleExceptStamp

SpecStamp == InitStamp /\ [][StampNext]_vars

\* delete_xref on a store of xref records
InitXrefDelete ==
    /\ BulkIdle /\ ModeIdle /\ EntIdle /\ SearchIdle
    /\ XrefDeleteInit /\ IdleExceptXdel

SpecXrefDelete == InitXrefDelete /\ [][XrefDeleteNext]_vars

(***************************************************************************)
(* Claims.                                                                 *)
(***************************************************************************)
InFlight == {t \in ChunkIds : task[t].st = "inflight"}

Unfinished == {t \in ChunkIds : task[t].st \in {"created", "inflight"}}

\* C1: at every moment the number of chunks whose bulk request is in flight
\* is at most max_concurrency, in both implementations of bulk_actions_async.
C1_InFlightBounded == Cardinality(InFlight) <= maxConc

\* the limit is reached while a further chunk waits for a slot
C1_Witness ==
    /\ Cardinality(InFlight) = maxConc
    /\ \E t \in ChunkIds : task[t].st = "created"

\* C2: when bulk_actions_async has returned normally, every chunk formed from
\* the source was run against the bulk endpoint exactly once, and no other.
C2_AttemptedExactlyOnce ==
    mpc = "returned" =>
        /\ taken = Total
        /\ \A t \in ChunkIds :
              IF t <= Total THEN attempts[t] = 1 /\ IsDone(t)
              ELSE attempts[t] = 0 /\ task[t].st = "none"

\* a run of three or more chunks returned, chunk 2 answered before chunk 1
C2_Witness ==
    /\ mpc = "returned"
    /\ impl = "indexer"
    /\ Total >= 3
    /\ Len(doneOrder) = Total
    /\ doneOrder[1] = 2

\* C3: at every moment the number of chunks taken from the source and not
\* yet completed is at most max_concurrency, in both implementations.
C3_Backpressure == Cardinality(Unfinished) <= maxConc

\* C4: a chunk whose bulk request raised does not stop the stream: the call
\* does not fail on it, and when it returns every chunk of the source was
\* formed and attempted.
C4_FailureIsolated ==
    (\E t \in ChunkIds : task[t].st = "raised") =>
        /\ mpc \notin {"abort", "failed"}
        /\ mpc = "returned" => (taken = Total /\ \A t \in 1..Total : attempts[t] = 1)

\* with one slot, chunk 1 raised and the later chunk 2 was still run
C4_Witness ==
    /\ mpc = "returned"
    /\ impl = "indexer"
    /\ maxConc = 1
    /\ Total >= 2
    /\ task[1].st = "raised"
    /\ task[2].st = "ok"

\* C5: after every exit from the bulk-indexing-mode scope, every entity index
\* has the configured refresh_interval, durability request and the
\* configured number of replicas.
C5_SettingsRestored ==
    modePc = "exited" =>
        \A i \in EntityIndexes :
            /\ idxSettings[i].refresh_interval = modeCfg.refresh_interval
            /\ idxSettings[i].durability = "request"
            /\ idxSettings[i].replicas = modeCfg.replicas

\* the scope was left by cancellation, with replicas configured
C5_Witness ==
    /\ modePc = "exited"
    /\ modeExit = "cancel"
    /\ modeCfg.replicas > 0

StoredIn(id) == {b \in BUCKETS : id \in stored[b]}

\* C6: after any sequence of index_proxy calls, once the indexes are
\* refreshed, every id is stored in exactly one entity index, the write
\* index of the schema it was last indexed with.
C6_ExactlyOneIndex ==
    Fresh =>
        \A id \in Ids :
            lastSchema[id] # NoSchema =>
                StoredIn(id) = {EntitiesWriteIndex(lastSchema[id])}

\* C7: delete_entity removes the id from every entity index that stores it,
\* except the write index of the excluded schema (stated for the calls made
\* when every index was refreshed, so that the search sees every copy).
C7_DeleteRemovesEveryCopy ==
    (lastOp.op = "delete_entity" /\ lastOp.fresh) =>
        \A b \in BUCKETS :
            (lastOp.exclude = NoSchema \/ b # EntitiesWriteIndex(lastOp.exclude))
                => lastOp.id \notin stored[b]

\* C8: every action handed to the bulk pipeline by the entity ingest path
\* carries a _routing key equal to the dataset of the entity.
C8_RoutingIsDataset ==
    handed # NoAction => handed.routing = handed.dataset

Allowed(auth) == {d \in DocIds : docs[d] \in auth.datasets}

\* C9: a search of a non-admin user with dataset set S returns only
\* documents of datasets in S (none when S is empty), whatever filter:dataset
\* the query carries; only an admin is unrestricted.
C9_HitsWithinAuth ==
    (lastSearch.done /\ ~lastSearch.auth.is_admin) =>
        /\ hits \subseteq Allowed(lastSearch.auth)
        /\ lastSearch.auth.datasets = {} => hits = {}

\* a non-admin filters on a dataset outside and one inside their set: the
\* document outside is withheld, the one inside is returned
C9_Witness ==
    /\ lastSearch.done
    /\ ~lastSearch.auth.is_admin
    /\ lastSearch.auth.datasets # {}
    /\ \E d \in DocIds : docs[d] \in lastSearch.filter \ lastSearch.auth.datasets
    /\ hits # {}

\* C10: iter_matches(dataset, auth) yields exactly the records of the
\* requested dataset whose match dataset is in auth.datasets, and for an
\* admin every record of the requested dataset.
C10_IterMatchesExact ==
    lastScan.done =>
        yielded = {r \in xrefs :
                      /\ r.collection_id = lastScan.collection_id
                      /\ (lastScan.auth.is_admin
                            \/ r.match_collection_id \in lastScan.auth.datasets)}

RejectedDatasets == {"", "default"}

\* C12: when index_bulk has gone through a stream, the entities with an
\* abstract schema or an invalid dataset name were skipped, every other
\* entity was submitted, and the call did not end early.
C12_RejectionSkipsOnlyTheEntity ==
    /\ sPc # "raised"
    /\ sPc = "done" =>
          \A i \in 1..Len(sSource) :
             IF Abstract(sSource[i]) \/ sDataset \in RejectedDatasets
             THEN i \in sSkipped /\ i \notin sSubmitted
             ELSE i \in sSubmitted

\* C13: an entry point called with sync=true issues every backend write and
\* delete with refresh=true, and under the testing flag every write and
\* delete is issued with refresh=true whatever sync is.
C13_SyncMeansRefresh ==
    (issued.sync \/ testing) => \A r \in issued.requests : r.refresh

\* C14: in a compiled request every equality filter is in exactly one of
\* filter and post_filter, in post_filter exactly when its field is also a
\* facet; every range filter is in filter, whatever the facets.
C14_FilterPlacement ==
    cPc = "compiled" =>
        /\ \A f \in cRequest.filters :
              /\ (Clause("terms", f) \in cBody.post_filter) <=> (f \in cRequest.facets)
              /\ (Clause("terms", f) \in cBody.filter) <=> (f \notin cRequest.facets)
        /\ \A f \in cRequest.ranges :
              /\ Clause("range", f) \in cBody.filter
              /\ Clause("range", f) \notin cBody.post_filter

C14_Witness ==
    /\ cPc = "compiled"
    /\ cRequest.filters = {"key1", "key2"}
    /\ cRequest.ranges = {"date"}
    /\ cRequest.facets = {"key2", "date"}
    /\ cBody.post_filter = {Clause("terms", "key2")}

\* C15, as amended: schema_bucket gives every schema one bucket by these
\* checks in this order: pages if its name is Page or Pages; else documents
\* if it is a Document; else things if it is a Thing; else intervals if it
\* is an Interval; else things. A schema that descends from both Interval
\* and Thing is placed in things.
C15_ThingBeforeInterval ==
    \A s \in Schemata : classified[s] # NoBucket =>
        /\ classified[s] \in BUCKETS
        /\ s \in PAGES => classified[s] = "pages"
        /\ (s \notin PAGES /\ IsA(s, "Document")) => classified[s] = "documents"
        /\ (s \notin PAGES /\ ~IsA(s, "Document") /\ IsA(s, "Thing")) =>
              classified[s] = "things"
        /\ (s \notin PAGES /\ ~IsA(s, "Document") /\ ~IsA(s, "Thing")
               /\ IsA(s, "Interval")) => classified[s] = "intervals"
        /\ (s \notin PAGES /\ ~IsA(s, "Document") /\ ~IsA(s, "Thing")
               /\ ~IsA(s, "Interval")) => classified[s] = "things"

C15_Witness ==
    /\ classified["Event"] = "things"
    /\ classified["Ownership"] = "intervals"
    /\ classified["Mention"] = "things"
    /\ classified["Pages"] = "pages"

\* C15, as stated: pages if the name is Page or Pages; else documents if a
\* Document; else intervals if an Interval; else things, so that a schema
\* descending from both Interval and Thing is placed in intervals.
C15_IntervalBeforeThing ==
    \A s \in Schemata : classified[s] # NoBucket =>
        /\ s \in PAGES => classified[s] = "pages"
        /\ (s \notin PAGES /\ IsA(s, "Document")) => classified[s] = "documents"
        /\ (s \notin PAGES /\ ~IsA(s, "Document") /\ IsA(s, "Interval")) =>
              classified[s] = "intervals"
        /\ (s \notin PAGES /\ ~IsA(s, "Document") /\ ~IsA(s, "Interval")) =>
              classified[s] = "things"

DocsOf(m) == {d \in eIndex : d.entity_id = m.entity_id
                               /\ d.collection_id = m.collection_id
                               /\ d.match_id = m.match_id}

\* C16, as amended: after n >= 1 emissions of a match the xref index holds
\* exactly one record for it, under the same id as after one emission; the
\* record is the one the latest emission wrote.
C16_OneRecordPerPair ==
    \A m \in EmitMatches : eCount[m] >= 1 =>
        /\ Cardinality(DocsOf(m)) = 1
        /\ \A d \in DocsOf(m) : d.id = eFirst[m].id /\ d = eLast[m]

C16_Witness ==
    \E m \in EmitMatches :
        /\ eCount[m] = MaxEmit
        /\ Cardinality(eIndex) = 2
        /\ eLast[m].created_at # eFirst[m].created_at

\* C16, as stated: after n >= 1 emissions of a match the xref index holds
\* the same records as after one emission.
C16_SameRecordsAsAfterOne ==
    \A m \in EmitMatches : eCount[m] >= 1 => DocsOf(m) = {eFirst[m]}

\* the errors the command tallied
Tallied == IF cliCommand = "index-entities" THEN errors ELSE stats.errors

\* C17: a command-line run ends with exit code 1 when at least one ingest or
\* delete error was tallied during the command, and with 0 when none was.
C17_ExitCodeTellsErrors ==
    cliExit.done => (cliExit.code = IF Tallied > 0 THEN 1 ELSE 0)

Issued(call) == \E i \in 1..Len(aCalls) : aCalls[i] = call

\* the settings the last configure_index asked for were not all in effect
Differed == \E k \in DOMAIN aLast.requested : aLast.before[k] # aLast.requested[k]

\* C18, as amended: configure_index on an existing index issues close and
\* put_settings exactly when the requested settings differ from the live
\* ones; when nothing differs it pushes the mapping in place with no close.
\* It issues open after every accepted put_mapping, settings changed or not.
C18_CloseOnlyOnChange ==
    (aLast.done /\ aLast.existed) =>
        /\ Issued("close") <=> Differed
        /\ Issued("put_settings") <=> Differed
        /\ ~Differed => (Issued("put_mapping") /\ aCalls[1] = "put_mapping")
        /\ Issued("open") <=> aLast.result

C18_Witness ==
    /\ aLast.done /\ aLast.existed /\ ~Differed
    /\ aRuns >= 2
    /\ DOMAIN aLast.requested = SettingKeys
    /\ aCalls = <<"put_mapping", "open">>

\* C18, as stated: close, put_settings and open are issued only when the
\* settings differ; when nothing differs the mapping is pushed in place and
\* neither close nor open is issued.
C18_NoCloseNoOpenWithoutChange ==
    (aLast.done /\ aLast.existed) =>
        /\ (Issued("close") \/ Issued("put_settings") \/ Issued("open"))
              => Differed
        /\ ~Differed =>
              (Issued("put_mapping") /\ ~Issued("close") /\ ~Issued("open"))

\* C19: the failed count tallied for a chunk that process_chunk returned
\* counts every failed item except the delete operations answered with 404;
\* a chunk whose only failures are delete-404 items adds 0.
C19_Delete404NotCounted ==
    (tPc = "tallied" /\ tResult.st = "ok") =>
        tErrors = Len(WithoutDelete404(SelectItems(tChunk, TRUE)))

\* the call has ended: it returned or an exception left it
BulkExited == mpc \in {"returned", "failed"}

\* C20: after an external cancellation no further chunk is formed, every
\* chunk already handed to a worker has run to completion before the client
\* is closed, and no chunk task is running or abandoned when the call ends.
C20_CancelDrainsWorkers ==
    kCancelled # "no" =>
        /\ taken = kTaken
        /\ (esClosed \/ BulkExited) =>
              \A t \in 1..taken : task[t].st \in {"ok", "raised"}

\* at every path of the live mapping, an immutable key holds its live value
\* in the result
RECURSIVE ImmutableKept(_, _)
ImmutableKept(result, existing) ==
    IsDict(existing) =>
        /\ IsDict(result)
        /\ \A key \in DOMAIN existing.items :
              IF key \in {"type", "analyzer", "normalizer", "index", "store"}
              THEN Get(result, key) = existing.items[key]
              ELSE ImmutableKept(Get(result, key), existing.items[key])

\* at every path, a key of the live mapping that the pending mapping lacks
\* holds its live value in the result
RECURSIVE AbsentKept(_, _, _)
AbsentKept(result, pendingMap, existing) ==
    (IsDict(existing) /\ IsDict(pendingMap)) =>
        /\ IsDict(result)
        /\ \A key \in DOMAIN existing.items :
              IF key \notin DOMAIN pendingMap.items
              THEN Get(result, key) = existing.items[key]
              ELSE AbsentKept(Get(result, key), pendingMap.items[key],
                              existing.items[key])

\* C21: in the result of rewrite_mapping_safe every immutable key of the
\* live mapping keeps its live value at its path, and every key of the live
\* mapping that the pending mapping lacks is there with its live value.
C21_LiveValuesKept ==
    rPc = "done" =>
        /\ ImmutableKept(rResult, rExisting)
        /\ AbsentKept(rResult, rPending, rExisting)

C21_Witness ==
    /\ rPc = "done"
    /\ LET live == Get(Get(rExisting, "properties"), "name")
           want == Get(Get(rPending, "properties"), "name")
           got == Get(Get(rResult, "properties"), "name")
       IN  /\ Get(live, "type") = Scalar("keyword")
           /\ Get(want, "type") = Scalar("text")
           /\ Get(live, "copy_to") = Scalar("text")
           /\ Get(want, "copy_to") = None
           /\ Get(got, "type") = Scalar("keyword")
           /\ Get(got, "copy_to") = Scalar("text")

\* at every path, a key of the pending mapping holds the pending value in
\* the result: merged when both sides are objects, else the pending value
\* unless the key is an immutable parameter
RECURSIVE PendingApplied(_, _, _)
PendingApplied(result, pendingMap, existing) ==
    IsDict(pendingMap) =>
        /\ IsDict(result)
        /\ \A key \in DOMAIN pendingMap.items :
              LET value == pendingMap.items[key]
                  old_value == Get(existing, key)
              IN  IF IsDict(value) /\ IsDict(old_value)
                  THEN PendingApplied(Get(result, key), value, old_value)
                  ELSE key \notin {"type", "analyzer", "normalizer", "index", "store"}
                          => Get(result, key) = value

\* C22: in the result of rewrite_mapping_safe every key of the pending
\* mapping that is not an immutable key holds the pending value, merged
\* recursively when both sides are objects, at every depth and under
\* enclosing fields of any name.
C22_PendingValuesApplied ==
    rPc = "done" => PendingApplied(rResult, rPending, rExisting)

\* C23: whenever _connect_async ends without returning a client, every
\* client object it created has been closed.
C23_ClientsClosedOnError ==
    (nImpl = "async" /\ nPc \in {"raised_connection", "raised_other"}) =>
        nClosed = nCreated

ConnectEnded == nPc \in {"returned", "raised_connection", "raised_other"}

\* C24: connection establishment always terminates; it returns at the first
\* attempt that succeeds, makes at most 60 attempts with one delay after
\* each connection error, and raises a connection error exactly once 60
\* attempts have failed with connection errors.
C24_ConnectTerminates ==
    /\ <>ConnectEnded
    /\ [](/\ nAttempt <= 60
          /\ nSlept = nAttempt
          /\ nPc = "raised_connection" <=> (nAttempt = 60 /\ ConnectEnded)
          /\ nPc = "returned" => nAttempt < 60)

C24_Witness == nPc = "raised_connection" /\ nSlept = 60 /\ nCreated > 0

\* the buckets that hold a concrete schema of the Thing subtree
ThingBuckets == {SchemaBucket(x) : x \in {y \in Schemata : IsA(y, "Thing") /\ ~Abstract(y)}}

\* the buckets that hold a concrete schema
ConcreteBuckets == {SchemaBucket(x) : x \in {y \in Schemata : ~Abstract(y)}}

IndexesOf(buckets) == {<<b, v>> : b \in buckets, v \in qVersions}

\* C25, as amended: entities_read_index called without a schema resolves,
\* for every read version, exactly the read indexes of the buckets that hold
\* a concrete schema of the model, whether in the Thing subtree or not; the
\* default to the Thing subtree is made by EntitiesQuery.get_index when no
\* schema filter is given.
C25_DefaultScopeAllSchemata ==
    qNames = {} =>
        /\ qCall = "read_index" => qIndexes = IndexesOf(ConcreteBuckets)
        /\ qCall \in {"get_index_schema", "get_index_schemata"} =>
              qIndexes = IndexesOf(ThingBuckets)

C25_Witness ==
    /\ qNames = {}
    /\ qCall = "read_index"
    /\ qVersions = ReadVersions
    /\ <<"intervals", "v2">> \in qIndexes
    /\ "intervals" \notin ThingBuckets

\* C25, as stated: entities_read_index called without a schema resolves, for
\* every read version, exactly the read indexes of the buckets that hold
\* concrete schemata of the Thing subtree.
C25_DefaultScopeThing ==
    (qNames = {} /\ qCall = "read_index") => qIndexes = IndexesOf(ThingBuckets)

\* C30: for a non-empty list of known schema names and either value of
\* expand, the index resolved is never empty, also through get_index.
C30_IndexNeverEmpty ==
    (qCall # "none" /\ qNames # {}) => qIndexes # {}

\* C26, as amended: the stored created_at is the minimum of the observed
\* created_at timestamps, the stored updated_at is the maximum of the
\* observed updated_at timestamps, and when no updated_at is observed the
\* stored updated_at is the maximum of the observed created_at timestamps,
\* which is the stored created_at only if all of them coincide.
C26_UpdatedFallsBackToLatestCreated ==
    oPc = "done" =>
        /\ oCreated # {} =>
              (oStored.created_at \in oCreated
               /\ \A x \in oCreated : oStored.created_at <= x)
        /\ oUpdated # {} =>
              (oStored.updated_at \in oUpdated
               /\ \A x \in oUpdated : oStored.updated_at >= x)
        /\ (oUpdated = {} /\ oCreated # {}) =>
              (oStored.updated_at \in oCreated
               /\ \A x \in oCreated : oStored.updated_at >= x)

C26_Witness ==
    /\ oPc = "done"
    /\ oCreated = {1, 3}
    /\ oUpdated = {}
    /\ oStored = [created_at |-> 1, updated_at |-> 3]

\* C26, as stated: created_at is the minimum observed, updated_at the
\* maximum observed, and with no updated_at observed the stored updated_at
\* equals the stored created_at, for any number of observed values.
C26_UpdatedFallsBackToCreated ==
    oPc = "done" =>
        /\ oCreated # {} =>
              (oStored.created_at \in oCreated
               /\ \A x \in oCreated : oStored.created_at <= x)
        /\ oUpdated # {} =>
              (oStored.updated_at \in oUpdated
               /\ \A x \in oUpdated : oStored.updated_at >= x)
        /\ oUpdated = {} => oStored.updated_at = oStored.created_at

\* C27: configure_index never returns with the index closed: whenever it
\* issued close, it issued open afterwards on the path by which it returned.
C27_NeverLeftClosed ==
    (aLast.done /\ Issued("close")) =>
        /\ aOpen
        /\ aCalls[Len(aCalls)] = "open"

\* C29: delete_xref(collection, entity_id=e) removes only records of the
\* given collection: a record whose collection_id and match_collection_id
\* both differ from the collection's id is left in place.
C29_DeleteStaysInCollection ==
    (xDeleted.done /\ xDeleted.entity_id # NoEntity) =>
        \A r \in xDeleted.removed :
            \/ r.collection_id = xDeleted.collection
            \/ r.match_collection_id = xDeleted.collection

\* C28: when bulk_actions_async has completed, the successful count plus
\* the failed count is the number of actions taken from the source, also
\* when a whole chunk failed with an exception.
C28_EveryActionTallied ==
    mpc = "returned" => success + errors = srcLen

====
